---- MODULE Spec2Model ----
(***************************************************************************)
(* Request pipeline of the Bun HTTP adapter: the Express-style response    *)
(* builder, the Fastify-style reply builder, the Fastify hook executor,    *)
(* the Express middleware executors and BunAdapter.handleRequest.          *)
(***************************************************************************)
EXTENDS Integers, Sequences, FiniteSets, TLC

(* ------------------------------ bounds --------------------------------- *)

\* longest hook list of one phase
MaxHooks == 2
\* longest middleware list and longest error-middleware list
MaxMiddleware == 2
\* registration calls made before listen()
MaxReg == 6
\* builder method calls explored on one builder in SpecBuilder
MaxCalls == 3

(* ------------------------------ values --------------------------------- *)

\* JavaScript values that reach a response body: null, undefined, a string,
\* a plain object (named by the text of its fields), a raw Response object,
\* a Buffer, a ReadableStream and a Blob (each named by the bytes it holds).
Null == [kind |-> "null", v |-> ""]
Undefined == [kind |-> "undefined", v |-> ""]
Str(s) == [kind |-> "string", v |-> s]
Obj(s) == [kind |-> "object", v |-> s]
BufferOf(s) == [kind |-> "buffer", v |-> s]
StreamOf(s) == [kind |-> "stream", v |-> s]
BlobOf(s) == [kind |-> "blob", v |-> s]

\* JSON.stringify: an object becomes its text in braces, a string is quoted,
\* null becomes the four letters null, undefined stays undefined; a Buffer
\* becomes the object its toJSON gives, a stream or a Blob has no enumerable
\* field and becomes the empty object.
JSONstringify(d) ==
  CASE d.kind = "object" -> Str("{" \o d.v \o "}")
    [] d.kind = "string" -> Str("'" \o d.v \o "'")
    [] d.kind = "null" -> Str("null")
    [] d.kind = "buffer" -> Str("{type:Buffer,data:" \o d.v \o "}")
    [] d.kind \in {"stream", "blob"} -> Str("{}")
    [] OTHER -> Undefined

\* String(value)
StringOf(d) ==
  CASE d.kind = "string" -> d
    [] d.kind = "object" -> Str("[object Object]")
    [] d.kind = "null" -> Str("null")
    [] d.kind = "buffer" -> Str(d.v)
    [] d.kind = "stream" -> Str("[object ReadableStream]")
    [] d.kind = "blob" -> Str("[object Blob]")
    [] OTHER -> Str("undefined")

\* Values a callback throws, rejects with or passes to done/next: an Error
\* instance with a message, or a value that is not an Error (a string).
NoError == [isError |-> FALSE, truthy |-> FALSE, message |-> ""]
ErrorOf(m) == [isError |-> TRUE, truthy |-> TRUE, message |-> m]
NonError(m) == [isError |-> FALSE, truthy |-> TRUE, message |-> m]

\* error instanceof Error ? error.message : "Internal Server Error"
MessageOf(e) == IF e.isError THEN e.message ELSE "Internal Server Error"

\* error instanceof Error ? error : new Error(String(error))
AsError(e) == IF e.isError THEN e ELSE ErrorOf(e.message)

(* ------------------------------ headers -------------------------------- *)

\* A Headers object: header names are case-insensitive, kept in lower case.
HeaderNames == {"content-type", "location", "x-custom", "access-control-allow-origin"}
Absent == "<absent>"
NewHeaders == [h \in HeaderNames |-> Absent]
HeadersSet(hs, k, val) == [hs EXCEPT ![k] = val]
HeadersDelete(hs, k) == [hs EXCEPT ![k] = Absent]
HeadersHas(hs, k) == hs[k] # Absent

\* A Response value: new Response(body, {status, headers}).
NewResponse(body, status, hs) == [status |-> status, headers |-> hs, body |-> body]
NoResponse == [status |-> 0, headers |-> NewHeaders, body |-> Null]

\* Response.redirect(url, status): Location is the only header, no body.
ResponseRedirect(url, status) ==
  NewResponse(Null, status, HeadersSet(NewHeaders, "location", url))

(* ------------------- Express-style response builder -------------------- *)

getStatusText(code) ==
  CASE code = 200 -> "OK"
    [] code = 201 -> "Created"
    [] code = 204 -> "No Content"
    [] code = 302 -> "Found"
    [] code = 404 -> "Not Found"
    [] code = 500 -> "Internal Server Error"
    [] OTHER -> "Unknown"

createExpressResponse ==
  [statusCode |-> 200, headers |-> NewHeaders, body |-> Null,
   ended |-> FALSE, headersSent |-> FALSE]

res_status(r, code) == [r EXCEPT !.statusCode = code]

res_sendStatus(r, code) ==
  [r EXCEPT !.statusCode = code, !.body = Str(getStatusText(code)), !.ended = TRUE]

res_json(r, data) ==
  [r EXCEPT !.headers = HeadersSet(r.headers, "content-type", "application/json"),
            !.body = JSONstringify(data), !.ended = TRUE]

res_send(r, data) ==
  CASE data.kind = "string" ->
         [r EXCEPT !.headers = IF HeadersHas(r.headers, "content-type") THEN r.headers
                               ELSE HeadersSet(r.headers, "content-type", "text/html"),
                   !.body = data, !.ended = TRUE]
    [] data.kind = "buffer" ->
         [r EXCEPT !.headers = IF HeadersHas(r.headers, "content-type") THEN r.headers
                               ELSE HeadersSet(r.headers, "content-type",
                                               "application/octet-stream"),
                   !.body = data, !.ended = TRUE]
    [] data.kind \in {"object", "null", "stream", "blob"} ->
         [r EXCEPT !.headers = HeadersSet(r.headers, "content-type", "application/json"),
                   !.body = JSONstringify(data), !.ended = TRUE]
    [] OTHER -> [r EXCEPT !.body = StringOf(data), !.ended = TRUE]

res_end(r, data) ==
  [r EXCEPT !.body = IF data.kind # "undefined" THEN data ELSE r.body, !.ended = TRUE]

res_set(r, field, val) == [r EXCEPT !.headers = HeadersSet(r.headers, field, val)]

res_removeHeader(r, field) == [r EXCEPT !.headers = HeadersDelete(r.headers, field)]

res_redirect(r, code, url) ==
  [r EXCEPT !.statusCode = code, !.headers = HeadersSet(r.headers, "location", url),
            !.ended = TRUE]

\* ExpressResponse._buildResponse: the Response it returns.
\* _buildResponse without its redirect branch: the body is always serialized.
res_buildResponse_bodyOnly(r) ==
  NewResponse(
    CASE r.body.kind \in {"null", "undefined"} -> Null
      [] r.body.kind \in {"string", "buffer", "stream", "blob"} -> r.body
      [] OTHER -> JSONstringify(r.body),
    r.statusCode, r.headers)

res_buildResponse(r) ==
  IF HeadersHas(r.headers, "location") /\ r.statusCode >= 300 /\ r.statusCode < 400
  THEN ResponseRedirect(r.headers["location"], r.statusCode)
  ELSE NewResponse(
         CASE r.body.kind \in {"null", "undefined"} -> Null
           [] r.body.kind \in {"string", "buffer", "stream", "blob"} -> r.body
           [] OTHER -> JSONstringify(r.body),
         r.statusCode, r.headers)

\* ExpressResponse._buildResponse: the builder it leaves behind.
res_afterBuild(r) == [r EXCEPT !.headersSent = TRUE]

(* --------------------- Fastify-style reply builder --------------------- *)

createFastifyReply ==
  [statusCode |-> 200, headers |-> NewHeaders, body |-> Null, sent |-> FALSE]

reply_code(p, code) == [p EXCEPT !.statusCode = code]

reply_header(p, key, val) == [p EXCEPT !.headers = HeadersSet(p.headers, key, val)]

reply_removeHeader(p, key) == [p EXCEPT !.headers = HeadersDelete(p.headers, key)]

reply_send(p, payload) ==
  IF p.sent THEN p
  ELSE [p EXCEPT !.body = IF payload.kind # "undefined" THEN payload ELSE p.body,
                 !.sent = TRUE]

reply_redirect(p, code, url) ==
  [p EXCEPT !.statusCode = code, !.headers = HeadersSet(p.headers, "location", url),
            !.sent = TRUE]

reply_callNotFound(p) ==
  [p EXCEPT !.statusCode = 404,
            !.body = Obj("statusCode:404,error:Not Found,message:Route not found"),
            !.sent = TRUE]

\* FastifyReply._buildResponse: the builder it leaves behind (a default
\* Content-Type is written into the reply's own headers).
reply_afterBuild(p) ==
  IF HeadersHas(p.headers, "location") /\ p.statusCode >= 300 /\ p.statusCode < 400
  THEN p
  ELSE IF \/ p.body.kind \in {"null", "undefined", "stream", "blob"}
          \/ HeadersHas(p.headers, "content-type")
       THEN p
       ELSE [p EXCEPT !.headers = HeadersSet(p.headers, "content-type",
                 CASE p.body.kind = "string" -> "text/plain; charset=utf-8"
                   [] p.body.kind = "buffer" -> "application/octet-stream"
                   [] OTHER -> "application/json; charset=utf-8")]

\* A _buildResponse whose redirect keeps the headers of the builder.
reply_buildResponse_keepHeaders(p) ==
  NewResponse(
    CASE p.body.kind \in {"null", "undefined"} -> Null
      [] p.body.kind \in {"string", "buffer", "stream", "blob"} -> p.body
      [] OTHER -> JSONstringify(p.body),
    p.statusCode, reply_afterBuild(p).headers)

\* FastifyReply._buildResponse: the Response it returns.
reply_buildResponse(p) ==
  IF HeadersHas(p.headers, "location") /\ p.statusCode >= 300 /\ p.statusCode < 400
  THEN ResponseRedirect(p.headers["location"], p.statusCode)
  ELSE NewResponse(
         CASE p.body.kind \in {"null", "undefined"} -> Null
           [] p.body.kind \in {"string", "buffer", "stream", "blob"} -> p.body
           [] OTHER -> JSONstringify(p.body),
         p.statusCode, reply_afterBuild(p).headers)

(* -------------------------------- paths --------------------------------- *)

\* A path is the sequence of its characters.
RootPath == <<"/">>
PathA == <<"/", "a">>
PathB == <<"/", "b">>

\* string.startsWith(prefix)
startsWith(s, p) == Len(p) <= Len(s) /\ SubSeq(s, 1, Len(p)) = p

\* string.replace(/\/+/g, "/")
RECURSIVE collapseSlashes(_)
collapseSlashes(s) ==
  IF Len(s) < 2 THEN s
  ELSE IF s[1] = "/" /\ s[2] = "/" THEN collapseSlashes(Tail(s))
       ELSE <<s[1]>> \o collapseSlashes(Tail(s))

\* BunAdapter.buildPath, with this.globalPrefix passed as prefix
buildPath(path, prefix) ==
  LET normalizedPath == IF startsWith(path, <<"/">>) THEN path ELSE <<"/">> \o path
  IN IF prefix # <<>>
     THEN collapseSlashes((IF startsWith(prefix, <<"/">>) THEN prefix ELSE <<"/">> \o prefix)
                          \o normalizedPath)
     ELSE normalizedPath

\* BunAdapter.pathMatchesMiddleware
pathMatchesMiddleware(requestPath, middlewarePath) ==
  IF middlewarePath = <<"/">> \/ middlewarePath = <<>> THEN TRUE
  ELSE LET normalizedMiddlewarePath ==
             IF startsWith(middlewarePath, <<"/">>) THEN middlewarePath
             ELSE <<"/">> \o middlewarePath
       IN requestPath = normalizedMiddlewarePath
          \/ startsWith(requestPath, normalizedMiddlewarePath \o <<"/">>)

\* The characters [a-zA-Z0-9_] of a parameter name that occur in the paths
\* of the model.
NameChars == {"a", "b", "i", "p", "x"}

\* The length of the longest run of name characters at the head of s.
RECURSIVE nameLength(_)
nameLength(s) ==
  IF s # <<>> /\ s[1] \in NameChars THEN 1 + nameLength(Tail(s)) ELSE 0

\* The replacements of pathToRegex, on a path whose trailing "*" is already
\* handled: ":name" becomes the group ([^/]+), any other character stands
\* for itself.
RECURSIVE replaceParams(_)
replaceParams(s) ==
  IF s = <<>> THEN <<>>
  ELSE IF s[1] = ":" /\ nameLength(Tail(s)) > 0
       THEN <<[t |-> "param", c |-> ""]>>
            \o replaceParams(SubSeq(s, 2 + nameLength(Tail(s)), Len(s)))
       ELSE <<[t |-> "lit", c |-> s[1]]>> \o replaceParams(Tail(s))

\* BunAdapter.pathToRegex: the compiled pattern as a sequence of tokens, a
\* literal character, the group ([^/]+) or the trailing group (.*).
pathToRegex(path) ==
  LET normalizedPath == IF startsWith(path, <<"/">>) THEN path ELSE <<"/">> \o path
      n == Len(normalizedPath)
  IN IF normalizedPath[n] = "*"
     THEN replaceParams(SubSeq(normalizedPath, 1, n - 1)) \o <<[t |-> "any", c |-> ""]>>
     ELSE replaceParams(normalizedPath)

\* pathname.match(pattern) is not null, for a pattern anchored by ^ and $.
RECURSIVE regexMatches(_, _)
regexMatches(pattern, s) ==
  IF pattern = <<>> THEN s = <<>>
  ELSE LET tok == pattern[1]
           rest == Tail(pattern)
       IN CASE tok.t = "lit" ->
                 s # <<>> /\ s[1] = tok.c /\ regexMatches(rest, Tail(s))
            [] tok.t = "param" ->
                 \E k \in 1..Len(s) :
                   /\ \A j \in 1..k : s[j] # "/"
                   /\ regexMatches(rest, SubSeq(s, k + 1, Len(s)))
            [] OTHER ->
                 \E k \in 0..Len(s) : regexMatches(rest, SubSeq(s, k + 1, Len(s)))

\* The names pathToRegex pushes to paramNames, in the order of the path.
RECURSIVE paramNames(_)
paramNames(s) ==
  IF s = <<>> THEN <<>>
  ELSE IF s[1] = ":" /\ nameLength(Tail(s)) > 0
       THEN <<SubSeq(s, 2, 1 + nameLength(Tail(s)))>>
            \o paramNames(SubSeq(s, 2 + nameLength(Tail(s)), Len(s)))
       ELSE paramNames(Tail(s))

\* pathname.match(pattern): whether the pattern matches and the text of its
\* capture groups, in order. A group is greedy: it takes the longest text
\* that lets the rest of the pattern match.
NoMatch == [ok |-> FALSE, groups |-> <<>>]
RECURSIVE regexExec(_, _)
regexExec(pattern, s) ==
  IF pattern = <<>> THEN [ok |-> s = <<>>, groups |-> <<>>]
  ELSE LET tok == pattern[1]
           rest == Tail(pattern)
           after(k) == regexExec(rest, SubSeq(s, k + 1, Len(s)))
           ks == IF tok.t = "param"
                 THEN {k \in 1..Len(s) : (\A j \in 1..k : s[j] # "/") /\ after(k).ok}
                 ELSE {k \in 0..Len(s) : after(k).ok}
           longest == CHOOSE k \in ks : \A j \in ks : j <= k
       IN IF tok.t = "lit"
          THEN IF s # <<>> /\ s[1] = tok.c THEN regexExec(rest, Tail(s)) ELSE NoMatch
          ELSE IF ks = {} THEN NoMatch
               ELSE [ok |-> TRUE,
                     groups |-> <<SubSeq(s, 1, longest)>> \o after(longest).groups]

\* A loop that binds the names to the groups in reverse order.
bindParams_reversed(names, groups) ==
  [n \in {names[i] : i \in 1..Len(names)} |->
     LET i == CHOOSE i \in 1..Len(names) :
                names[i] = n /\ \A j \in 1..Len(names) : names[j] = n => j <= i
     IN groups[Len(names) + 1 - i]]

\* route.paramNames.forEach((name, index) => { params[name] = match[index + 1] }):
\* the params object, where a name that occurs twice keeps its last group.
bindParams(names, groups) ==
  [n \in {names[i] : i \in 1..Len(names)} |->
     LET i == CHOOSE i \in 1..Len(names) :
                names[i] = n /\ \A j \in 1..Len(names) : names[j] = n => j <= i
     IN groups[i]]

(* ------------------------------- state --------------------------------- *)

HookNames == {"onRequest", "preHandler", "onSend", "onError", "onResponse"}

VARIABLES
  \* BunAdapter fields (the registries, filled before listen)
  fastifyHooks,      \* FastifyHooksManager: the length of each of the five hook lists
  middlewares,       \* the path of each MiddlewareEntry, in registration order
  errorMiddlewares,  \* the path of each ErrorMiddlewareEntry, in registration order
  routes,            \* the method and full path of each Route, in registration order
  errorHandler,      \* whether setErrorHandler was called
  notFoundHandler,   \* whether setNotFoundHandler was called
  globalPrefix,      \* this.globalPrefix
  listening,         \* serverWrapper.listening
  \* the locals of one call of handleRequest
  pc,                \* where handleRequest stands
  idx,               \* index of the next callback of the list being run
  site,              \* which call site of the recovery code is running
  err,               \* the error being recovered from
  request,           \* method and pathname of the request
  matchedRoute,      \* whether a route matched
  res,               \* the ExpressResponse
  fastifyReply,      \* the FastifyReply
  payload,           \* currentPayload of executeOnSend
  awaiting,          \* the callback that returned before signalling completion
  response,          \* the Response handleRequest holds or has returned
  outcome,           \* "pending", "resolved" or "rejected": the promise of handleRequest
  \* history of the request, read only by the properties
  trace,             \* the callbacks invoked and the finalizations, in order
  lastSignal,        \* the callback called last and how it completed
  raised,            \* the phase whose error started recovery
  handledBy,         \* the recovery stage that produced the response
  recoveryThrew,     \* the recovery handler that threw, if any
  flow,              \* what callbacks did that shortens the pipeline
  \* builder exploration (SpecBuilder)
  calls,             \* builder method calls made so far
  lastCall,          \* the last builder method call
  \* startup (SpecListen)
  plugins,           \* FastifyPluginRegistry.plugins: what each plugin does
  \* requests in flight together (SpecConcurrent)
  requestDecorators, \* FastifyPluginRegistry.requestDecorators: the value under "state"
  inflight,          \* per request: where its handleRequest stands and its locals
  \* CORS (SpecCors)
  cors,              \* the index of the middleware enableCors added, its options,
                     \* and the Origin header of the request
  \* request views (SpecViews)
  views              \* the request objects of one request and what was done with them

registry == <<fastifyHooks, middlewares, errorMiddlewares, routes, errorHandler,
              notFoundHandler, globalPrefix, listening>>
locals == <<pc, idx, site, err, request, matchedRoute, res, fastifyReply, payload,
            awaiting, response, outcome>>
history == <<trace, lastSignal, raised, handledBy, recoveryThrew, flow>>
explore == <<calls, lastCall, plugins, requestDecorators, inflight, cors, views>>
vars == <<registry, locals, history, explore>>

None == [cb |-> "none", i |-> 0, kind |-> "none"]
NoCall == [target |-> "none", op |-> "none"]
NoRequest == [method |-> "", pathname |-> <<>>]

\* Requests handled at the same time.
MaxRequests == 3
Requests == 1..MaxRequests

\* No request decorator is registered; a request that has not arrived.
NoDecorator == [kind |-> "none", user |-> 0]
NotArrived == [pc |-> "idle", state |-> [ref |-> "none", user |-> 0], response |-> 0]

\* The keys and the values of the query string of a request URL, and the
\* number of key=value pairs in it.
MaxParams == 3
QueryKeys == {"k", "q"}
QueryValues == {"1", "2"}
QueryPairs == {<<"k", "1">>, <<"k", "2">>, <<"q", "1">>}
SearchParams == UNION {[1..n -> QueryPairs] : n \in 0..MaxParams}

\* A request view: its query object and the properties assigned on it.
NoView == [query |-> [k \in QueryKeys |-> Absent], props |-> {}]
\* No request has arrived.
NoViews ==
  [pc |-> "idle", searchParams |-> <<>>, handler |-> "none", req |-> NoView,
   fastifyReq |-> NoView, passed |-> "none", seen |-> {},
   route |-> <<>>, pathname |-> <<>>, matched |-> FALSE, params |-> <<>>]

\* enableCors was not called.
NoCors == [at |-> 0, preflightContinue |-> FALSE, origin |-> "*", requestOrigin |-> ""]

\* The state after new BunAdapter(): empty registries, no request in flight.
Init ==
  /\ fastifyHooks = [h \in HookNames |-> 0]
  /\ middlewares = <<>>
  /\ errorMiddlewares = <<>>
  /\ routes = <<>>
  /\ errorHandler = FALSE
  /\ notFoundHandler = FALSE
  /\ globalPrefix = <<>>
  /\ listening = FALSE
  /\ pc = "idle"
  /\ idx = 0
  /\ site = "none"
  /\ err = NoError
  /\ request = NoRequest
  /\ matchedRoute = FALSE
  /\ res = createExpressResponse
  /\ fastifyReply = createFastifyReply
  /\ payload = Null
  /\ awaiting = None
  /\ response = NoResponse
  /\ outcome = "pending"
  /\ trace = <<>>
  /\ lastSignal = None
  /\ raised = "none"
  /\ handledBy = "none"
  /\ recoveryThrew = "none"
  /\ flow = {}
  /\ calls = 0
  /\ lastCall = NoCall
  /\ plugins = <<>>
  /\ requestDecorators = NoDecorator
  /\ inflight = [r \in Requests |-> NotArrived]
  /\ cors = NoCors
  /\ views = NoViews

(* --------------------------- registration ------------------------------ *)

\* registration calls made so far
RegCount ==
  fastifyHooks["onRequest"] + fastifyHooks["preHandler"] + fastifyHooks["onSend"]
  + fastifyHooks["onError"] + fastifyHooks["onResponse"]
  + Len(middlewares) + Len(errorMiddlewares) + Len(routes)
  + (IF errorHandler THEN 1 ELSE 0) + (IF notFoundHandler THEN 1 ELSE 0)

\* the scopes a middleware is registered with
MiddlewarePaths == {RootPath, PathB}
\* the paths a route is registered with
RoutePaths == {PathA}
\* the pathnames of the requests
RequestPaths == {PathA}

\* BunAdapter.addHook -> FastifyHooksManager.addHook
addHook(name) ==
  /\ ~listening
  /\ RegCount < MaxReg
  /\ fastifyHooks[name] < MaxHooks
  /\ fastifyHooks' = [fastifyHooks EXCEPT ![name] = @ + 1]
  /\ UNCHANGED <<middlewares, errorMiddlewares, routes, errorHandler, notFoundHandler,
                 globalPrefix, listening, locals, history, explore>>

\* BunAdapter.use with a function of three parameters
useMiddleware(path) ==
  /\ ~listening
  /\ RegCount < MaxReg
  /\ Len(middlewares) < MaxMiddleware
  /\ middlewares' = Append(middlewares, path)
  /\ UNCHANGED <<fastifyHooks, errorMiddlewares, routes, errorHandler, notFoundHandler,
                 globalPrefix, listening, locals, history, explore>>

\* BunAdapter.use with a function of four parameters
useErrorMiddleware(path) ==
  /\ ~listening
  /\ RegCount < MaxReg
  /\ Len(errorMiddlewares) < MaxMiddleware
  /\ errorMiddlewares' = Append(errorMiddlewares, path)
  /\ UNCHANGED <<fastifyHooks, middlewares, routes, errorHandler, notFoundHandler,
                 globalPrefix, listening, locals, history, explore>>

\* BunAdapter.get -> addRoute
addRoute(method, path) ==
  /\ ~listening
  /\ RegCount < MaxReg
  /\ routes = <<>>
  /\ routes' = Append(routes, [method |-> method, path |-> buildPath(path, globalPrefix)])
  /\ UNCHANGED <<fastifyHooks, middlewares, errorMiddlewares, errorHandler,
                 notFoundHandler, globalPrefix, listening, locals, history, explore>>

setErrorHandler ==
  /\ ~listening
  /\ RegCount < MaxReg
  /\ ~errorHandler
  /\ errorHandler' = TRUE
  /\ UNCHANGED <<fastifyHooks, middlewares, errorMiddlewares, routes, notFoundHandler,
                 globalPrefix, listening, locals, history, explore>>

setNotFoundHandler ==
  /\ ~listening
  /\ RegCount < MaxReg
  /\ ~notFoundHandler
  /\ notFoundHandler' = TRUE
  /\ UNCHANGED <<fastifyHooks, middlewares, errorMiddlewares, routes, errorHandler,
                 globalPrefix, listening, locals, history, explore>>

\* BunAdapter.listen: the server starts and the fetch callback is handleRequest
listen ==
  /\ ~listening
  /\ listening' = TRUE
  /\ UNCHANGED <<fastifyHooks, middlewares, errorMiddlewares, routes, errorHandler,
                 notFoundHandler, globalPrefix, locals, history, explore>>

(* ----------------------- handleRequest: helpers ------------------------- *)

\* The loops of executeMiddlewareChain and executeErrorMiddlewareChain skip
\* the entries whose path does not match: the first index from `from` on
\* whose entry matches, or one past the end of the list.
firstMatching(list, pathname, from) ==
  LET hits == {i \in from..Len(list) :
                 pathMatchesMiddleware(pathname, buildPath(list[i], globalPrefix))}
  IN IF hits = {} THEN Len(list) + 1
     ELSE CHOOSE i \in hits : \A j \in hits : i <= j

\* One turn of the route loop of handleRequest: method equal or ALL, and
\* pathname.match(route.pathPattern) with the pattern compiled from the
\* stored full path.
routeMatches(route, method, pathname) ==
  /\ (route.method = method \/ route.method = "ALL")
  /\ regexMatches(pathToRegex(route.path), pathname)

\* The two Response values handleRequest constructs itself.
NotFoundResponse ==
  NewResponse(JSONstringify(Obj("statusCode:404,message:Not Found")), 404,
              HeadersSet(NewHeaders, "content-type", "application/json"))
CaughtResponse(e) ==
  NewResponse(JSONstringify(Obj("statusCode:500,message:" \o MessageOf(e))), 500,
              HeadersSet(NewHeaders, "content-type", "application/json"))

\* A Response object made by a route handler.
RawResponse == NewResponse(Str("raw"), 200, NewHeaders)

\* the default error bodies the dispatcher writes
replyDefault500(p, e) ==
  reply_send(reply_code(p, 500),
             Obj("statusCode:500,error:Internal Server Error,message:" \o e.message))
resDefault500(r, e) ==
  res_json(res_status(r, 500), Obj("statusCode:500,message:" \o MessageOf(e)))
resOnSend500(r, e) ==
  res_json(res_status(r, 500),
           Obj(IF e.isError THEN "statusCode:500,message:" \o e.message
               ELSE "statusCode:500"))

\* control transfers inside handleRequest
Goto(p, i, s, e) ==
  /\ pc' = p /\ idx' = i /\ site' = s /\ err' = e
  /\ UNCHANGED <<response, outcome>>
Return(rsp) ==
  /\ pc' = "done" /\ response' = rsp /\ outcome' = "resolved"
  /\ UNCHANGED <<idx, site, err>>
Reject ==
  /\ pc' = "done" /\ outcome' = "rejected"
  /\ UNCHANGED <<idx, site, err, response>>
\* the catch of the try around the route handler (line 527)
InnerCatch(e) ==
  Goto("errorMiddleware", firstMatching(errorMiddlewares, request.pathname, 1),
       "handlerCatch", e)
\* the catch of the try around the whole pipeline (line 563)
OuterCatch(e) == Goto("outerCatch", 1, site, e)

Raise(phase) == raised' = IF raised = "none" THEN phase ELSE raised
Threw(cb) == recoveryThrew' = IF recoveryThrew = "none" THEN cb ELSE recoveryThrew

(* ----------------------- what the callbacks do -------------------------- *)

\* A hook writes nothing or sends a reply; it completes by calling done (with
\* nothing, an Error or a value that is no Error), by a promise that resolves
\* or rejects, by throwing, or by calling done after it has returned.
HookWrites == {"none", "send"}
HookCompletions ==
  {"done", "doneErr", "doneValue", "resolve", "reject", "rejectValue", "throw", "later"}
hookWrite(p, w) == IF w = "send" THEN reply_send(p, Str("hook")) ELSE p
onErrorWrite(p, w) ==
  IF w = "send" THEN reply_send(reply_code(p, 500), Str("onError")) ELSE p

\* An executeHook whose callers see every value passed to done, or rejected
\* with, as an error.
executeHook_anyValue(c) ==
  CASE c \in {"doneErr", "reject"} -> ErrorOf("boom")
    [] c \in {"doneValue", "rejectValue"} -> ErrorOf("denied")
    [] OTHER -> NoError

\* FastifyHooksManager.executeHook: the value its promise resolves with
executeHook(c) ==
  CASE c \in {"doneErr", "reject"} -> ErrorOf("boom")
    [] c \in {"doneValue", "rejectValue"} -> NonError("denied")
    [] OTHER -> NoError

\* "status" is res.status(201) with nothing sent; it is paired with the
\* completion "return" only, where the chain finalizes what was written.
MiddlewareWrites == {"none", "send", "status"}
\* "throwFalsy" is a throw, or a rejection, with a falsy value: throw
\* undefined, Promise.reject().
MiddlewareCompletions == {"next", "nextErr", "throw", "throwFalsy", "return", "later"}
middlewareWrite(r, w) ==
  CASE w = "send" -> res_send(r, Str("mw"))
    [] w = "status" -> res_status(r, 201)
    [] OTHER -> r

ErrorMiddlewareCompletions == {"next", "nextErr", "throw", "return"}
errorMiddlewareWrite(r, w) ==
  IF w = "send" THEN res_send(res_status(r, 500), Str("errmw")) ELSE r

\* "next" is next() with no argument, then a return.
HandlerCompletions ==
  {"return", "next", "returnValue", "returnResponse", "throw", "nextErr"}
handlerWrite(r, w) == IF w = "send" THEN res_send(r, Str("ok")) ELSE r

errorHandlerWrite(r, w) ==
  IF w = "send" THEN res_json(res_status(r, 500), Obj("custom")) ELSE r
notFoundWrite(r, w) ==
  IF w = "send" THEN res_send(res_status(r, 404), Str("nf")) ELSE r

OnSendCompletions ==
  {"done", "donePayload", "doneErr", "doneValue", "resolve", "reject", "throw"}
OnResponseCompletions == {"done", "doneErr", "resolve", "reject", "throw"}
OnErrorCompletions == {"done", "doneErr", "resolve", "reject", "throw"}

\* the value a callback throws or passes on
signalled(c) ==
  CASE c \in {"doneErr", "reject", "throw", "nextErr"} -> ErrorOf("boom")
    [] c \in {"doneValue", "rejectValue"} -> NonError("denied")
    [] OTHER -> NoError

\* how a hook completed, as the properties read it: the way it failed, "value"
\* for a failure signalled with a value that is no Error, "ended" for a reply
\* sent, "later" for a completion still to come, "ok" otherwise
hookSignal(c, p) ==
  CASE c \in {"doneErr", "reject", "throw", "later"} -> c
    [] c \in {"doneValue", "rejectValue"} -> "value"
    [] p.sent -> "ended"
    [] OTHER -> "ok"
Signal(cb, i, kind) == [cb |-> cb, i |-> i, kind |-> kind]

(* --------------------------- handleRequest ------------------------------ *)

\* handleRequest up to its try block: the route loop, the two response
\* builders, then the first onRequest hook.
handleRequest ==
  /\ listening
  /\ pc = "idle"
  /\ \E p \in RequestPaths :
       /\ request' = [method |-> "GET", pathname |-> p]
       /\ matchedRoute' = \E i \in 1..Len(routes) : routeMatches(routes[i], "GET", p)
  /\ res' = createExpressResponse
  /\ fastifyReply' = createFastifyReply
  /\ Goto("onRequest", 1, "none", NoError)
  /\ UNCHANGED <<registry, payload, awaiting, history, explore>>

\* The body of the loop of executeOnRequest / executePreHandler after the
\* await: an Error result is returned, a sent reply ends the loop.
afterHook(phase, p, r) ==
  /\ fastifyReply' = p
  /\ IF r.isError
     THEN Goto("onError", 1, phase, r) /\ Raise(phase)
     ELSE IF p.sent
          THEN Goto(phase, fastifyHooks[phase] + 1, site, err) /\ UNCHANGED raised
          ELSE Goto(phase, idx + 1, site, err) /\ UNCHANGED raised

\* One hook of executeOnRequest or executePreHandler is called.
executeHookList(phase) ==
  /\ pc = phase
  /\ awaiting = None
  /\ idx <= fastifyHooks[phase]
  /\ \E w \in HookWrites, c \in HookCompletions :
       LET p == hookWrite(fastifyReply, w)
       IN /\ trace' = Append(trace, <<phase, idx>>)
          /\ flow' = IF p.sent THEN flow \cup {"ended"} ELSE flow
          /\ lastSignal' = Signal(phase, idx, hookSignal(c, p))
          /\ IF c = "later"
             THEN /\ fastifyReply' = p
                  /\ awaiting' = [cb |-> phase, i |-> idx, kind |-> "later"]
                  /\ UNCHANGED <<pc, idx, site, err, response, outcome, raised>>
             ELSE IF c = "throw"
                  THEN /\ fastifyReply' = p
                       /\ OuterCatch(signalled(c))
                       /\ Raise(phase)
                       /\ UNCHANGED awaiting
                  ELSE afterHook(phase, p, executeHook(c)) /\ UNCHANGED awaiting
  /\ UNCHANGED <<registry, request, matchedRoute, res, payload, handledBy,
                 recoveryThrew, explore>>

executeOnRequest == executeHookList("onRequest")
executePreHandler == executeHookList("preHandler")

\* A hook that returned without calling done calls it now.
doneCalledLater ==
  /\ awaiting # None
  /\ awaiting.cb = pc
  /\ \E c \in {"done", "doneErr"} :
       /\ afterHook(pc, fastifyReply, executeHook(c))
       /\ lastSignal' = Signal(pc, idx, hookSignal(c, fastifyReply))
  /\ awaiting' = None
  /\ UNCHANGED <<registry, request, matchedRoute, res, payload, trace, handledBy,
                 recoveryThrew, flow, explore>>

\* afterOnRequest with the middleware chain left out
afterOnRequest_noMiddleware ==
  /\ pc = "onRequest"
  /\ awaiting = None
  /\ idx > fastifyHooks["onRequest"]
  /\ IF fastifyReply.sent
     THEN /\ Return(reply_buildResponse(fastifyReply))
          /\ fastifyReply' = reply_afterBuild(fastifyReply)
     ELSE /\ Goto("preHandler", 1, site, err)
          /\ UNCHANGED fastifyReply
  /\ UNCHANGED <<registry, request, matchedRoute, res, payload, awaiting, history, explore>>

\* handleRequest after executeOnRequest returned no error (lines 407-413)
afterOnRequest ==
  /\ pc = "onRequest"
  /\ awaiting = None
  /\ idx > fastifyHooks["onRequest"]
  /\ IF fastifyReply.sent
     THEN /\ Return(reply_buildResponse(fastifyReply))
          /\ fastifyReply' = reply_afterBuild(fastifyReply)
     ELSE /\ Goto("middleware", firstMatching(middlewares, request.pathname, 1), site, err)
          /\ UNCHANGED fastifyReply
  /\ UNCHANGED <<registry, request, matchedRoute, res, payload, awaiting, history, explore>>

\* handleRequest after executePreHandler returned no error (lines 451-457, 553)
afterPreHandler ==
  /\ pc = "preHandler"
  /\ awaiting = None
  /\ idx > fastifyHooks["preHandler"]
  /\ IF fastifyReply.sent
     THEN /\ Return(reply_buildResponse(fastifyReply))
          /\ fastifyReply' = reply_afterBuild(fastifyReply)
     ELSE /\ Goto(IF matchedRoute THEN "handler" ELSE "notFound", 1, site, err)
          /\ UNCHANGED fastifyReply
  /\ UNCHANGED <<registry, request, matchedRoute, res, payload, awaiting, history, explore>>

\* What handleRequest does with the result of executeOnError, at each of its
\* five call sites.
afterOnError(handledFlag, p) ==
  IF site \in {"onRequest", "preHandler"}
  THEN LET q == IF handledFlag THEN p ELSE replyDefault500(p, err)
       IN /\ Return(reply_buildResponse(q))
          /\ fastifyReply' = reply_afterBuild(q)
          /\ handledBy' = IF handledFlag THEN "onError" ELSE "default500"
          /\ UNCHANGED res
  ELSE IF handledFlag
       THEN /\ Return(reply_buildResponse(p))
            /\ fastifyReply' = reply_afterBuild(p)
            /\ handledBy' = "onError"
            /\ UNCHANGED res
       ELSE IF site = "onSend"
            THEN /\ res' = resOnSend500(res, err)
                 /\ Goto("build", 1, site, err)
                 /\ fastifyReply' = p
                 /\ handledBy' = "default500"
            ELSE /\ Goto("errorHandler", 1, site, err)
                 /\ fastifyReply' = p
                 /\ UNCHANGED <<res, handledBy>>

\* One hook of executeOnError is called.
executeOnError ==
  /\ pc = "onError"
  /\ lastSignal' = Signal("onError", idx, "any")
  /\ idx <= fastifyHooks["onError"]
  /\ \E w \in HookWrites, c \in OnErrorCompletions :
       LET p == onErrorWrite(fastifyReply, w)
       IN /\ trace' = Append(trace, <<"onError", idx>>)
          /\ IF c = "throw"
             THEN /\ fastifyReply' = p
                  /\ Threw("onError")
                  /\ IF site \in {"handlerNext", "onSend"}
                     THEN InnerCatch(signalled(c))
                     ELSE OuterCatch(signalled(c))
                  /\ UNCHANGED <<res, handledBy>>
             ELSE IF c = "done" \/ p.sent
                  THEN afterOnError(TRUE, p) /\ UNCHANGED recoveryThrew
                  ELSE /\ fastifyReply' = p
                       /\ Goto("onError", idx + 1, site, err)
                       /\ UNCHANGED <<res, handledBy, recoveryThrew>>
  /\ UNCHANGED <<registry, request, matchedRoute, payload, awaiting, raised,
                 flow, explore>>

\* executeOnError ran out of hooks: it returns false.
onErrorUnhandled ==
  /\ pc = "onError"
  /\ idx > fastifyHooks["onError"]
  /\ afterOnError(FALSE, fastifyReply)
  /\ UNCHANGED <<registry, request, matchedRoute, payload, awaiting, trace, lastSignal,
                 raised, recoveryThrew, flow, explore>>

\* One matching middleware of executeMiddlewareChain is called, and what
\* handleRequest does when the chain returns (lines 413-435).
\* A chain that stops only at an ended response, whether or not next() was
\* called.
chainCompleted_ended(r, c) == r.ended

\* executeMiddlewareChain after a middleware returned with no error: the
\* chain is completed when the response is ended or next() was not called.
chainCompleted(r, c) == r.ended \/ c \in {"return", "later"}

executeMiddlewareChain ==
  /\ pc = "middleware"
  /\ lastSignal' = Signal("middleware", idx, "any")
  /\ idx <= Len(middlewares)
  /\ \E w \in MiddlewareWrites, c \in MiddlewareCompletions :
       LET r == middlewareWrite(res, w)
           e == signalled(c)
       IN /\ w = "status" => c = "return"
          /\ trace' = Append(trace, <<"middleware", idx>>)
          /\ flow' = flow \cup (IF r.ended THEN {"ended"} ELSE {})
                          \cup (IF c = "return" /\ ~r.ended THEN {"halted"} ELSE {})
                          \cup (IF c = "later" THEN {"nextLater"} ELSE {})
                          \cup (IF c = "throwFalsy" THEN {"threwFalsy"} ELSE {})
          /\ awaiting' = IF c = "later"
                         THEN [cb |-> "middleware", i |-> idx, kind |-> "later"]
                         ELSE awaiting
          /\ IF e.truthy
             THEN /\ res' = r
                  /\ Goto("errorMiddleware",
                          firstMatching(errorMiddlewares, request.pathname, 1),
                          "middleware", e)
                  /\ Raise("middleware")
             ELSE IF c = "throwFalsy"
                  THEN \* { error: err, completed: false } with err falsy: the
                       \* loop is left and handleRequest sees no error
                       /\ res' = r
                       /\ Goto("middleware", Len(middlewares) + 1, site, err)
                       /\ UNCHANGED raised
             ELSE IF chainCompleted(r, c)
                  THEN /\ res' = res_afterBuild(r)
                       /\ Return(res_buildResponse(r))
                       /\ UNCHANGED raised
                  ELSE /\ res' = r
                       /\ Goto("middleware",
                               firstMatching(middlewares, request.pathname, idx + 1),
                               site, err)
                       /\ UNCHANGED raised
  /\ UNCHANGED <<registry, request, matchedRoute, fastifyReply, payload,
                 handledBy, recoveryThrew, explore>>

\* A middleware that returned without calling next calls it now: the flag it
\* sets belongs to a loop iteration that is over.
nextCalledLater ==
  /\ awaiting # None
  /\ awaiting.cb = "middleware"
  /\ awaiting' = None
  /\ UNCHANGED <<registry, pc, idx, site, err, request, matchedRoute, res, fastifyReply,
                 payload, response, outcome, history, explore>>

\* executeMiddlewareChain ran through the list: completed is false (lines 432-438)
afterMiddleware ==
  /\ pc = "middleware"
  /\ idx > Len(middlewares)
  /\ IF res.ended
     THEN /\ res' = res_afterBuild(res)
          /\ Return(res_buildResponse(res))
     ELSE /\ Goto("preHandler", 1, site, err)
          /\ UNCHANGED res
  /\ UNCHANGED <<registry, request, matchedRoute, fastifyReply, payload, awaiting,
                 history, explore>>

\* A chain that also passes the error on when a handler returned without
\* calling next.
errorForwarded_unlessNext(r, c) == ~r.ended /\ c \in {"nextErr", "return"}

\* executeErrorMiddlewareChain after a handler that did not throw (lines
\* 333-344): the loop goes on only when the response is not ended and next
\* was called with an error; in every other case the chain returns true.
errorForwarded(r, c) == ~r.ended /\ c = "nextErr"

\* One matching handler of executeErrorMiddlewareChain is called; when the
\* chain returns true every call site returns res._buildResponse().
executeErrorMiddlewareChain ==
  /\ pc = "errorMiddleware"
  /\ idx <= Len(errorMiddlewares)
  /\ \E w \in HookWrites, c \in ErrorMiddlewareCompletions :
       LET r == errorMiddlewareWrite(res, w)
           nextIdx == firstMatching(errorMiddlewares, request.pathname, idx + 1)
       IN /\ trace' = Append(trace, <<"errorMiddleware", idx>>)
          /\ lastSignal' = Signal("errorMiddleware", idx, c)
          /\ IF c = "throw"
             THEN /\ res' = r
                  /\ Goto("errorMiddleware", nextIdx, site, err)
                  /\ Threw("errorMiddleware")
                  /\ UNCHANGED handledBy
             ELSE IF errorForwarded(r, c)
                  THEN /\ res' = r
                       /\ Goto("errorMiddleware", nextIdx, site, ErrorOf("forwarded"))
                       /\ UNCHANGED <<handledBy, recoveryThrew>>
                  ELSE /\ res' = res_afterBuild(r)
                       /\ Return(res_buildResponse(r))
                       /\ handledBy' = "errorMiddleware"
                       /\ UNCHANGED recoveryThrew
  /\ UNCHANGED <<registry, request, matchedRoute, fastifyReply, payload, awaiting, raised,
                 flow, explore>>

\* executeErrorMiddlewareChain returned false: after a middleware error the
\* global handler is next (line 418), after a handler error the onError hooks
\* are (lines 474, 529).
errorMiddlewareUnhandled ==
  /\ pc = "errorMiddleware"
  /\ idx > Len(errorMiddlewares)
  /\ IF site = "middleware"
     THEN Goto("errorHandler", 1, site, err)
     ELSE Goto("onError", 1, site, err)
  /\ UNCHANGED <<registry, request, matchedRoute, res, fastifyReply, payload, awaiting,
                 history, explore>>

\* this.errorHandler(error, req, res) if one is set, else the default JSON 500
\* written on res; then return res._buildResponse() (lines 420-429, 482-494,
\* 537-549).
globalErrorHandler ==
  /\ pc = "errorHandler"
  /\ lastSignal' = IF errorHandler THEN Signal("errorHandler", 0, "any") ELSE lastSignal
  /\ IF errorHandler
     THEN \E w \in HookWrites, c \in {"return", "throw"} :
            LET r == errorHandlerWrite(res, w)
            IN /\ trace' = Append(trace, <<"errorHandler", 0>>)
               /\ IF c = "throw"
                  THEN /\ res' = r
                       /\ Threw("errorHandler")
                       /\ IF site = "handlerNext"
                          THEN InnerCatch(signalled(c))
                          ELSE OuterCatch(signalled(c))
                       /\ UNCHANGED handledBy
                  ELSE /\ res' = res_afterBuild(r)
                       /\ Return(res_buildResponse(r))
                       /\ handledBy' = "errorHandler"
                       /\ UNCHANGED recoveryThrew
     ELSE LET r == resDefault500(res, err)
          IN /\ res' = res_afterBuild(r)
             /\ Return(res_buildResponse(r))
             /\ handledBy' = "default500"
             /\ UNCHANGED <<trace, recoveryThrew>>
  /\ UNCHANGED <<registry, request, matchedRoute, fastifyReply, payload, awaiting, raised,
                 flow, explore>>

\* The catch around the whole pipeline (lines 563-580).
outerCatch ==
  /\ pc = "outerCatch"
  /\ lastSignal' = IF errorHandler THEN Signal("errorHandler", 0, "any") ELSE lastSignal
  /\ IF errorHandler
     THEN \E w \in HookWrites, c \in {"return", "throw"} :
            LET r == errorHandlerWrite(res, w)
            IN /\ trace' = Append(trace, <<"errorHandler", 0>>)
               /\ IF c = "throw"
                  THEN /\ res' = r
                       /\ Threw("errorHandler")
                       /\ Reject
                       /\ UNCHANGED handledBy
                  ELSE /\ res' = res_afterBuild(r)
                       /\ Return(res_buildResponse(r))
                       /\ handledBy' = "catchErrorHandler"
                       /\ UNCHANGED recoveryThrew
     ELSE /\ Return(CaughtResponse(err))
          /\ handledBy' = "catch500"
          /\ UNCHANGED <<res, trace, recoveryThrew>>
  /\ UNCHANGED <<registry, request, matchedRoute, fastifyReply, payload, awaiting, raised,
                 flow, explore>>

\* The matched route's handler is called (lines 457-505).
\* A handleRequest that takes next() from the route handler as "not mine"
\* and goes on to the not-found branch.
phaseAfterHandler_passOn(c) == IF c = "next" THEN "notFound" ELSE "onSend"

\* Where handleRequest goes when the route handler returned with no error
\* (lines 471-508): _nextCalled is set by next() and never read, so the
\* onSend hooks follow whether or not next() was called.
phaseAfterHandler(c) == "onSend"

executeHandler ==
  /\ pc = "handler"
  /\ \E w \in HookWrites, c \in HandlerCompletions :
       LET r == handlerWrite(res, w)
           e == signalled(c)
       IN /\ trace' = Append(trace, <<"handler", 1>>)
          /\ lastSignal' = Signal("handler", 1,
                                  CASE c = "returnResponse" -> "response"
                                    [] c = "next" -> "next"
                                    [] OTHER -> "any")
          /\ flow' = IF c = "returnResponse" /\ ~r.ended THEN flow \cup {"raw"} ELSE flow
          /\ IF c = "throw"
             THEN /\ res' = r
                  /\ InnerCatch(e)
                  /\ Raise("handler")
                  /\ UNCHANGED payload
             ELSE IF c = "nextErr"
                  THEN /\ res' = r
                       /\ Goto("errorMiddleware",
                               firstMatching(errorMiddlewares, request.pathname, 1),
                               "handlerNext", e)
                       /\ Raise("handler")
                       /\ UNCHANGED payload
                  ELSE IF ~r.ended /\ c = "returnResponse"
                       THEN /\ res' = r
                            /\ pc' = "onResponse" /\ idx' = 1 /\ site' = "raw"
                            /\ response' = RawResponse
                            /\ UNCHANGED <<err, outcome, raised, payload>>
                       ELSE LET r2 == IF ~r.ended /\ c = "returnValue"
                                      THEN res_send(r, Obj("result")) ELSE r
                            IN /\ res' = r2
                               /\ payload' = r2.body
                               /\ Goto(phaseAfterHandler(c), 1, "normal", err)
                               /\ UNCHANGED raised
  /\ UNCHANGED <<registry, request, matchedRoute, fastifyReply, awaiting,
                 handledBy, recoveryThrew, explore>>

\* One hook of executeOnSend is called (lines 508-510).
executeOnSend ==
  /\ pc = "onSend"
  /\ lastSignal' = Signal("onSend", idx, "any")
  /\ idx <= fastifyHooks["onSend"]
  /\ \E c \in OnSendCompletions :
       /\ trace' = Append(trace, <<"onSend", idx>>)
       /\ IF c = "throw"
          THEN InnerCatch(signalled(c)) /\ Raise("onSend") /\ UNCHANGED payload
          ELSE IF signalled(c).truthy
               THEN /\ Goto("onError", 1, "onSend", signalled(c))
                    /\ Raise("onSend")
                    /\ UNCHANGED payload
               ELSE /\ Goto("onSend", idx + 1, site, err)
                    /\ payload' = IF c = "donePayload" THEN Str("replaced") ELSE payload
                    /\ UNCHANGED raised
  /\ UNCHANGED <<registry, request, matchedRoute, res, fastifyReply, awaiting,
                 handledBy, recoveryThrew, flow, explore>>

\* executeOnSend returned no error
afterOnSend ==
  /\ pc = "onSend"
  /\ idx > fastifyHooks["onSend"]
  /\ Goto("build", 1, site, err)
  /\ UNCHANGED <<registry, request, matchedRoute, res, fastifyReply, payload, awaiting,
                 history, explore>>

\* const response = res._buildResponse() (line 521)
buildResponse ==
  /\ pc = "build"
  /\ response' = res_buildResponse(res)
  /\ res' = res_afterBuild(res)
  /\ trace' = Append(trace, <<"buildResponse", 0>>)
  /\ pc' = "onResponse" /\ idx' = 1 /\ site' = "normal"
  /\ UNCHANGED <<registry, err, request, matchedRoute, fastifyReply, payload, awaiting,
                 outcome, lastSignal, raised, handledBy, recoveryThrew, flow, explore>>

\* One hook of executeOnResponse is called (lines 501, 524): its result is
\* dropped, a throw leaves the try block.
executeOnResponse ==
  /\ pc = "onResponse"
  /\ lastSignal' = Signal("onResponse", idx, "any")
  /\ idx <= fastifyHooks["onResponse"]
  /\ \E c \in OnResponseCompletions :
       /\ trace' = Append(trace, <<"onResponse", idx>>)
       /\ IF c = "throw"
          THEN InnerCatch(signalled(c)) /\ Raise("onResponse")
          ELSE Goto("onResponse", idx + 1, site, err) /\ UNCHANGED raised
  /\ UNCHANGED <<registry, request, matchedRoute, res, fastifyReply, payload, awaiting,
                 handledBy, recoveryThrew, flow, explore>>

\* return response / return handlerResult (lines 502, 526)
returnResponse ==
  /\ pc = "onResponse"
  /\ idx > fastifyHooks["onResponse"]
  /\ Return(response)
  /\ UNCHANGED <<registry, request, matchedRoute, res, fastifyReply, payload, awaiting,
                 history, explore>>

\* No route matched (lines 553-562).
notFound ==
  /\ pc = "notFound"
  /\ lastSignal' = IF notFoundHandler THEN Signal("notFound", 0, "any") ELSE lastSignal
  /\ IF notFoundHandler
     THEN \E w \in HookWrites, c \in {"return", "throw"} :
            LET r == notFoundWrite(res, w)
            IN /\ trace' = Append(trace, <<"notFound", 0>>)
               /\ IF c = "throw"
                  THEN res' = r /\ OuterCatch(signalled(c)) /\ Raise("notFound")
                  ELSE /\ res' = res_afterBuild(r)
                       /\ Return(res_buildResponse(r))
                       /\ UNCHANGED raised
     ELSE /\ Return(NotFoundResponse)
          /\ UNCHANGED <<res, trace, raised>>
  /\ UNCHANGED <<registry, request, matchedRoute, fastifyReply, payload, awaiting,
                 handledBy, recoveryThrew, flow, explore>>

(* ---------------------------- specification ---------------------------- *)

Next ==
  \/ \E h \in HookNames : addHook(h)
  \/ \E p \in MiddlewarePaths : useMiddleware(p)
  \/ useErrorMiddleware(RootPath)
  \/ \E p \in RoutePaths : addRoute("GET", p)
  \/ setErrorHandler
  \/ setNotFoundHandler
  \/ listen
  \/ handleRequest
  \/ executeOnRequest
  \/ afterOnRequest
  \/ executeMiddlewareChain
  \/ nextCalledLater
  \/ afterMiddleware
  \/ executePreHandler
  \/ doneCalledLater
  \/ afterPreHandler
  \/ executeHandler
  \/ executeOnSend
  \/ afterOnSend
  \/ buildResponse
  \/ executeOnResponse
  \/ returnResponse
  \/ notFound
  \/ executeErrorMiddlewareChain
  \/ errorMiddlewareUnhandled
  \/ executeOnError
  \/ onErrorUnhandled
  \/ globalErrorHandler
  \/ outerCatch

Spec == Init /\ [][Next]_vars

(* ------------------- the builders called on their own ------------------- *)

\* what a caller passes to the builder methods
StatusCodes == {201, 404}
RedirectCodes == {301, 302}
Payloads == {Str("first"), Str("second"), Obj("a:1"), Undefined, Null,
             BufferOf("bytes"), StreamOf("chunks"), BlobOf("parts")}
TerminalOps == {"send", "json", "end", "sendStatus", "redirect", "callNotFound"}

\* one method call on one of the two builders of a request
Call(target, op) ==
  /\ calls < MaxCalls
  /\ calls' = calls + 1
  /\ lastCall' = [target |-> target, op |-> op]
  /\ UNCHANGED <<plugins, requestDecorators, inflight, cors, views>>
  /\ UNCHANGED <<registry, pc, idx, site, err, request, matchedRoute, payload, awaiting,
                 outcome, history>>

expressStatus ==
  /\ Call("res", "status")
  /\ \E code \in StatusCodes : res' = res_status(res, code)
  /\ UNCHANGED <<fastifyReply, response>>

expressSendStatus ==
  /\ Call("res", "sendStatus")
  /\ \E code \in StatusCodes : res' = res_sendStatus(res, code)
  /\ UNCHANGED <<fastifyReply, response>>

expressJson ==
  /\ Call("res", "json")
  /\ \E d \in Payloads : res' = res_json(res, d)
  /\ UNCHANGED <<fastifyReply, response>>

expressSend ==
  /\ Call("res", "send")
  /\ \E d \in Payloads : res' = res_send(res, d)
  /\ UNCHANGED <<fastifyReply, response>>

expressEnd ==
  /\ Call("res", "end")
  /\ \E d \in Payloads : res' = res_end(res, d)
  /\ UNCHANGED <<fastifyReply, response>>

expressSet ==
  /\ Call("res", "set")
  /\ \E val \in {"text/plain", "application/xml"} : res' = res_set(res, "content-type", val)
  /\ UNCHANGED <<fastifyReply, response>>

expressRedirect ==
  /\ Call("res", "redirect")
  /\ \E code \in RedirectCodes : res' = res_redirect(res, code, "/to")
  /\ UNCHANGED <<fastifyReply, response>>

expressBuildResponse ==
  /\ Call("res", "_buildResponse")
  /\ response' = res_buildResponse(res)
  /\ res' = res_afterBuild(res)
  /\ UNCHANGED fastifyReply

fastifyCode ==
  /\ Call("reply", "code")
  /\ \E code \in StatusCodes : fastifyReply' = reply_code(fastifyReply, code)
  /\ UNCHANGED <<res, response>>

fastifyHeader ==
  /\ Call("reply", "header")
  /\ \E val \in {"text/plain", "application/xml"} :
       fastifyReply' = reply_header(fastifyReply, "content-type", val)
  /\ UNCHANGED <<res, response>>

fastifySend ==
  /\ Call("reply", "send")
  /\ \E d \in Payloads : fastifyReply' = reply_send(fastifyReply, d)
  /\ UNCHANGED <<res, response>>

fastifyRedirect ==
  /\ Call("reply", "redirect")
  /\ \E code \in RedirectCodes : fastifyReply' = reply_redirect(fastifyReply, code, "/to")
  /\ UNCHANGED <<res, response>>

fastifyCallNotFound ==
  /\ Call("reply", "callNotFound")
  /\ fastifyReply' = reply_callNotFound(fastifyReply)
  /\ UNCHANGED <<res, response>>

fastifyBuildResponse ==
  /\ Call("reply", "_buildResponse")
  /\ response' = reply_buildResponse(fastifyReply)
  /\ fastifyReply' = reply_afterBuild(fastifyReply)
  /\ UNCHANGED res

NextBuilder ==
  \/ expressStatus
  \/ expressSendStatus
  \/ expressJson
  \/ expressSend
  \/ expressEnd
  \/ expressSet
  \/ expressRedirect
  \/ expressBuildResponse
  \/ fastifyCode
  \/ fastifyHeader
  \/ fastifySend
  \/ fastifyRedirect
  \/ fastifyCallNotFound
  \/ fastifyBuildResponse

SpecBuilder == Init /\ [][NextBuilder]_vars

(* ------------------ which callbacks a request selects ------------------- *)

MaxRoutes == 2

\* The arguments of setGlobalPrefix: no prefix, or "api".
Prefixes == {<<>>, <<"a", "p", "i">>}
\* The patterns routes are registered with: "/a", "/:x" and "/b/*".
RoutePatterns == {PathA, <<"/", ":", "x">>, <<"/", "b", "/", "*">>}
RouteMethods == {"GET", "ALL"}
RequestMethods == {"GET", "POST"}
\* The pathnames requested: "/a", "/b", "/b/a", "/api/a", "/api/b".
AllRequestPaths ==
  {PathA, PathB, <<"/", "b", "/", "a">>,
   <<"/", "a", "p", "i", "/", "a">>, <<"/", "a", "p", "i", "/", "b">>}

\* BunAdapter.setGlobalPrefix
setGlobalPrefix(prefix) ==
  /\ request = NoRequest
  /\ globalPrefix' = prefix
  /\ UNCHANGED <<fastifyHooks, middlewares, errorMiddlewares, routes, errorHandler,
                 notFoundHandler, listening, locals, history, explore>>

\* BunAdapter.use(path, fn) with a middleware of fewer than four parameters:
\* the path is stored as given.
use(path) ==
  /\ request = NoRequest
  /\ Len(middlewares) < MaxMiddleware
  /\ middlewares' = Append(middlewares, path)
  /\ UNCHANGED <<fastifyHooks, errorMiddlewares, routes, errorHandler, notFoundHandler,
                 globalPrefix, listening, locals, history, explore>>

\* BunAdapter.get / post / all: addRoute with any number of routes. The full
\* path is built, and the pattern compiled from it, at registration.
registerRoute(method, path) ==
  /\ request = NoRequest
  /\ Len(routes) < MaxRoutes
  /\ routes' = Append(routes, [method |-> method, path |-> buildPath(path, globalPrefix)])
  /\ UNCHANGED <<fastifyHooks, middlewares, errorMiddlewares, errorHandler,
                 notFoundHandler, globalPrefix, listening, locals, history, explore>>

\* A route loop that keeps going after a match: the last matching route.
findRoute_last(method, pathname, i) ==
  LET hits == {j \in i..Len(routes) : routeMatches(routes[j], method, pathname)}
  IN IF hits = {} THEN 0 ELSE CHOOSE j \in hits : \A k \in hits : k <= j

\* The route loop of handleRequest: the index of the first route, from i on,
\* that matches, or 0 when the loop ends without a match.
RECURSIVE findRoute(_, _, _)
findRoute(method, pathname, i) ==
  IF i > Len(routes) THEN 0
  ELSE IF routeMatches(routes[i], method, pathname) THEN i
       ELSE findRoute(method, pathname, i + 1)

\* The loop of executeMiddlewareChain when every middleware calls next():
\* the middleware called, in order, from index `from` on.
RECURSIVE chainOf(_, _)
chainOf(pathname, from) ==
  LET i == firstMatching(middlewares, pathname, from)
  IN IF i > Len(middlewares) THEN <<>>
     ELSE <<<<"middleware", i>>>> \o chainOf(pathname, i + 1)

\* handleRequest with no hook registered, middleware that call next() and a
\* handler that returns: the middleware whose scope matches are called, then
\* the handler of the matched route, or the not-found branch.
dispatch(method, pathname) ==
  /\ request = NoRequest
  /\ request' = [method |-> method, pathname |-> pathname]
  /\ LET r == findRoute(method, pathname, 1)
     IN /\ matchedRoute' = (r # 0)
        /\ trace' = chainOf(pathname, 1)
                     \o <<IF r # 0 THEN <<"handler", r>> ELSE <<"notFound", 0>>>>
  /\ pc' = "done"
  /\ UNCHANGED <<registry, idx, site, err, res, fastifyReply, payload, awaiting,
                 response, outcome, lastSignal, raised, handledBy, recoveryThrew,
                 flow, explore>>

NextRouting ==
  \/ \E prefix \in Prefixes : setGlobalPrefix(prefix)
  \/ \E path \in MiddlewarePaths : use(path)
  \/ \E method \in RouteMethods, path \in RoutePatterns : registerRoute(method, path)
  \/ \E method \in RequestMethods, pathname \in AllRequestPaths : dispatch(method, pathname)

SpecRouting == Init /\ [][NextRouting]_vars

\* The patterns of the routes registered after the first: "/a" again, "/:x".
LaterRoutePatterns == {PathA, <<"/", ":", "x">>}

\* The pipeline of a request that reaches its route handler, with onSend and
\* onResponse hooks, routes and a not-found handler and nothing else
\* registered.
NextOnSend ==
  \/ setNotFoundHandler
  \/ \E h \in {"onSend", "onResponse"} : addHook(h)
  \/ \E p \in RoutePaths : addRoute("GET", p)
  \/ \E path \in LaterRoutePatterns : ~listening /\ registerRoute("GET", path)
  \/ listen
  \/ handleRequest
  \/ afterOnRequest
  \/ afterMiddleware
  \/ afterPreHandler
  \/ executeHandler
  \/ executeOnSend
  \/ afterOnSend
  \/ buildResponse
  \/ executeOnResponse
  \/ returnResponse
  \/ notFound
  \/ errorMiddlewareUnhandled
  \/ onErrorUnhandled
  \/ globalErrorHandler

SpecOnSend == Init /\ [][NextOnSend]_vars

(* ------------- the hooks manager called on its own ---------------------- *)

\* The payloads executeOnSend is called with.
InitialPayloads == {Str("original"), Str("")}

\* What one onSend hook does: done(), done(undefined, payload + suffix),
\* done(undefined, null), done(undefined, ""), done(err), a promise that
\* resolves, a promise that rejects, a synchronous throw.
OnSendHookKinds ==
  {"done", "doneAppend", "doneNull", "doneEmpty", "doneErr", "resolve", "reject", "throw"}

\* The text hook i appends.
Suffix(i) == IF i = 1 THEN " first" ELSE IF i = 2 THEN " second" ELSE " more"

\* The second argument of done for a hook of kind c that received payload cur.
newPayloadOf(c, i, cur) ==
  CASE c = "doneAppend" -> Str(cur.v \o Suffix(i))
    [] c = "doneNull" -> Null
    [] c = "doneEmpty" -> Str("")
    [] OTHER -> Undefined

\* A chain in which a hook that passes no replacement clears the payload.
nextPayload_clear(cur, new) == new

\* executeOnSend, lines 473 and 484-486: result.payload is newPayload ??
\* currentPayload, and replaces currentPayload unless it is undefined.
nextPayload(cur, new) ==
  LET resultPayload == IF new.kind \in {"null", "undefined"} THEN cur ELSE new
  IN IF resultPayload.kind # "undefined" THEN resultPayload ELSE cur

\* FastifyHooksManager.executeOnSend(request, reply, payload) is called.
callExecuteOnSend(p) ==
  /\ pc = "idle" /\ site = "none"
  /\ pc' = "onSend" /\ idx' = 1 /\ site' = "executeOnSend"
  /\ payload' = p
  /\ trace' = <<<<"executeOnSend", 0, p>>>>
  /\ UNCHANGED <<registry, err, request, matchedRoute, res, fastifyReply, awaiting,
                 response, outcome, lastSignal, raised, handledBy, recoveryThrew, flow,
                 explore>>

\* One turn of the loop of executeOnSend, or its return after the last hook.
\* A hook that throws synchronously rejects the promise of executeOnSend.
onSendHook ==
  /\ pc = "onSend" /\ site = "executeOnSend"
  /\ IF idx > fastifyHooks["onSend"]
     THEN /\ pc' = "done" /\ outcome' = "resolved"
          /\ UNCHANGED <<idx, err, payload, trace>>
     ELSE \E c \in OnSendHookKinds :
            /\ trace' = Append(trace, <<c, idx, payload>>)
            /\ CASE c = "throw" ->
                     /\ pc' = "done" /\ outcome' = "rejected"
                     /\ UNCHANGED <<idx, err, payload>>
                 [] c \in {"doneErr", "reject"} ->
                     /\ pc' = "done" /\ outcome' = "resolved"
                     /\ err' = ErrorOf("boom")
                     /\ UNCHANGED <<idx, payload>>
                 [] OTHER ->
                     /\ payload' = IF c = "resolve" THEN payload
                                   ELSE nextPayload(payload, newPayloadOf(c, idx, payload))
                     /\ idx' = idx + 1
                     /\ UNCHANGED <<pc, err, outcome>>
  /\ UNCHANGED <<registry, site, request, matchedRoute, res, fastifyReply, awaiting,
                 response, lastSignal, raised, handledBy, recoveryThrew, flow, explore>>

\* FastifyHooksManager.executeOnError(request, reply, error) is called, with
\* a reply that is fresh or already sent.
callExecuteOnError(sent) ==
  /\ pc = "idle" /\ site = "none"
  /\ pc' = "onError" /\ idx' = 1 /\ site' = "executeOnError"
  /\ err' = ErrorOf("boom")
  /\ fastifyReply' = IF sent THEN reply_send(createFastifyReply, Str("early"))
                     ELSE createFastifyReply
  /\ trace' = <<>>
  /\ UNCHANGED <<registry, request, matchedRoute, res, payload, awaiting, response,
                 outcome, lastSignal, raised, handledBy, recoveryThrew, flow, explore>>

\* One turn of the loop of executeOnError, or its return of false after the
\* last hook. handledBy is "onError" when true is returned.
onErrorHook ==
  /\ pc = "onError" /\ site = "executeOnError"
  /\ IF idx > fastifyHooks["onError"]
     THEN /\ pc' = "done" /\ outcome' = "resolved"
          /\ UNCHANGED <<idx, fastifyReply, handledBy, trace>>
     ELSE \E w \in HookWrites, c \in OnErrorCompletions :
            LET p == onErrorWrite(fastifyReply, w)
            IN /\ trace' = Append(trace, <<c, idx, p.sent>>)
               /\ fastifyReply' = p
               /\ IF c = "throw"
                  THEN /\ pc' = "done" /\ outcome' = "rejected"
                       /\ UNCHANGED <<idx, handledBy>>
                  ELSE IF c = "done" \/ p.sent
                       THEN /\ pc' = "done" /\ outcome' = "resolved"
                            /\ handledBy' = "onError"
                            /\ UNCHANGED idx
                       ELSE /\ idx' = idx + 1
                            /\ UNCHANGED <<pc, outcome, handledBy>>
  /\ UNCHANGED <<registry, site, err, request, matchedRoute, res, payload, awaiting,
                 response, lastSignal, raised, recoveryThrew, flow, explore>>

NextHooks ==
  \/ \E name \in {"onSend", "onError"} : pc = "idle" /\ addHook(name)
  \/ \E p \in InitialPayloads : callExecuteOnSend(p)
  \/ onSendHook
  \/ \E sent \in BOOLEAN : callExecuteOnError(sent)
  \/ onErrorHook

SpecHooks == Init /\ [][NextHooks]_vars

(* -------------------------------- startup -------------------------------- *)

MaxPlugins == 3

\* What a plugin does: done(), done(err), a promise that resolves, a promise
\* that rejects, a synchronous throw, done() called after it has returned.
PluginKinds == {"done", "doneErr", "resolve", "reject", "throw", "doneLater"}

\* A startup that takes only done(err) for a failure.
pluginFails_doneOnly(kind) == kind = "doneErr"

\* initializePlugins: the promise of a plugin rejects on done(err) with err
\* truthy, on a rejected promise and on a throw inside the executor.
pluginFails(kind) == kind \in {"doneErr", "reject", "throw"}

\* BunAdapter.register
register(kind) ==
  /\ pc = "idle"
  /\ Len(plugins) < MaxPlugins
  /\ plugins' = Append(plugins, kind)
  /\ UNCHANGED <<registry, locals, history, calls, lastCall, requestDecorators, inflight, cors, views>>

\* BunAdapter.listen is called, up to the loop of initializePlugins.
callListen ==
  /\ pc = "idle" /\ ~listening
  /\ pc' = "plugins" /\ idx' = 1 /\ site' = "listen"
  /\ UNCHANGED <<registry, err, request, matchedRoute, res, fastifyReply, payload,
                 awaiting, response, outcome, history, explore>>

\* One turn of the loop of initializePlugins: the plugin is called and its
\* promise awaited. A failure rejects initializePlugins and listen with it.
initializePlugin ==
  /\ pc = "plugins" /\ awaiting = None
  /\ idx <= Len(plugins)
  /\ LET kind == plugins[idx]
     IN IF pluginFails(kind)
        THEN /\ trace' = Append(trace, <<"start", idx>>)
             /\ pc' = "done" /\ outcome' = "rejected"
             /\ err' = ErrorOf("plugin")
             /\ UNCHANGED <<idx, awaiting>>
        ELSE IF kind = "doneLater"
             THEN /\ trace' = Append(trace, <<"start", idx>>)
                  /\ awaiting' = [cb |-> "plugin", i |-> idx, kind |-> "later"]
                  /\ UNCHANGED <<pc, idx, err, outcome>>
             ELSE /\ trace' = trace \o <<<<"start", idx>>, <<"finish", idx>>>>
                  /\ idx' = idx + 1
                  /\ UNCHANGED <<pc, err, outcome, awaiting>>
  /\ UNCHANGED <<registry, site, request, matchedRoute, res, fastifyReply, payload,
                 response, lastSignal, raised, handledBy, recoveryThrew, flow, explore>>

\* The plugin that returned without signalling calls done() now.
pluginDone ==
  /\ pc = "plugins" /\ awaiting # None
  /\ awaiting' = None
  /\ trace' = Append(trace, <<"finish", idx>>)
  /\ idx' = idx + 1
  /\ UNCHANGED <<registry, pc, site, err, request, matchedRoute, res, fastifyReply,
                 payload, response, outcome, lastSignal, raised, handledBy,
                 recoveryThrew, flow, explore>>

\* listen after initializePlugins returned: Bun.serve opens the listener.
openListener ==
  /\ pc = "plugins" /\ awaiting = None
  /\ idx > Len(plugins)
  /\ listening' = TRUE
  /\ pc' = "done" /\ outcome' = "resolved"
  /\ UNCHANGED <<fastifyHooks, middlewares, errorMiddlewares, routes, errorHandler,
                 notFoundHandler, globalPrefix, idx, site, err, request, matchedRoute,
                 res, fastifyReply, payload, awaiting, response, history, explore>>

NextListen ==
  \/ \E kind \in PluginKinds : register(kind)
  \/ callListen
  \/ initializePlugin
  \/ pluginDone
  \/ openListener

SpecListen == Init /\ [][NextListen]_vars

(* ---------------------- requests in flight together --------------------- *)

\* The value given to decorateRequest("state", value): a primitive, an
\* object with a field user, or a function returning such an object.
DecoratorKinds == {"primitive", "object", "function"}

\* BunAdapter.decorateRequest("state", value)
decorateRequest(kind) ==
  /\ requestDecorators = NoDecorator
  /\ \A r \in Requests : inflight[r].pc = "idle"
  /\ requestDecorators' = [kind |-> kind, user |-> 0]
  /\ UNCHANGED <<registry, locals, history, calls, lastCall, plugins, inflight, cors, views>>

\* handleRequest for request r up to its first await: the request views are
\* created and applyRequestDecorators assigns request.state, the registry's
\* own object for an object value, the result of the call for a function.
applyRequestDecorators(r) ==
  /\ inflight[r].pc = "idle"
  /\ inflight' = [inflight EXCEPT ![r] =
       [pc |-> "onRequest",
        state |-> [ref |-> IF requestDecorators.kind = "object" THEN "registry"
                           ELSE "own",
                   user |-> 0],
        response |-> 0]]
  /\ UNCHANGED <<registry, locals, history, calls, lastCall, plugins, requestDecorators, cors, views>>

\* An onRequest hook of request r does request.state.user = <the caller>,
\* or request.state = { user: <the caller> } where state is no object, and
\* then awaits.
hookWritesState(r) ==
  /\ inflight[r].pc = "onRequest"
  /\ IF inflight[r].state.ref = "registry"
     THEN /\ requestDecorators' = [requestDecorators EXCEPT !.user = r]
          /\ inflight' = [inflight EXCEPT ![r].pc = "handler"]
     ELSE /\ inflight' = [inflight EXCEPT ![r].pc = "handler", ![r].state.user = r]
          /\ UNCHANGED requestDecorators
  /\ UNCHANGED <<registry, locals, history, calls, lastCall, plugins, cors, views>>

\* The route handler of request r answers with request.state.user.
handlerReadsState(r) ==
  /\ inflight[r].pc = "handler"
  /\ inflight' = [inflight EXCEPT
       ![r].pc = "done",
       ![r].response = IF inflight[r].state.ref = "registry"
                       THEN requestDecorators.user ELSE inflight[r].state.user]
  /\ UNCHANGED <<registry, locals, history, calls, lastCall, plugins, requestDecorators, cors, views>>

NextConcurrent ==
  \/ \E kind \in DecoratorKinds : decorateRequest(kind)
  \/ \E r \in Requests : applyRequestDecorators(r)
  \/ \E r \in Requests : hookWritesState(r)
  \/ \E r \in Requests : handlerReadsState(r)

SpecConcurrent == Init /\ [][NextConcurrent]_vars

(* ----------------------------- request views ----------------------------- *)

\* url.searchParams.forEach((value, key) => { query[key] = value }): the
\* pairs from index i on are stored into q in the order of the URL.
RECURSIVE parseQuery(_, _, _)
parseQuery(searchParams, i, q) ==
  IF i > Len(searchParams) THEN q
  ELSE parseQuery(searchParams, i + 1,
                  [q EXCEPT ![searchParams[i][1]] = searchParams[i][2]])

\* createExpressRequest and createFastifyRequest: a new object each, with
\* the query parsed from the URL of the Bun request.
createExpressRequest(searchParams) ==
  [query |-> parseQuery(searchParams, 1, NoView.query), props |-> {}]
createFastifyRequest(searchParams) ==
  [query |-> parseQuery(searchParams, 1, NoView.query), props |-> {}]

\* The kinds of route handler: registered Express-style, or Fastify-style
\* through a plugin and wrapped by wrapFastifyHandler.
HandlerKinds == {"express", "fastify"}
\* The property a hook assigns on its request object.
HookProps == {"user"}

\* The patterns of the routes with several parameters, "/:x/:p",
\* "/:p/b/:x" and "/:i/:x/*", and the pathnames requested, "/a/b", "/b/a",
\* "/a/b/i", "/a/b/" and "/ab/p".
ParamPatterns ==
  {<<"/", ":", "x", "/", ":", "p">>,
   <<"/", ":", "p", "/", "b", "/", ":", "x">>,
   <<"/", ":", "i", "/", ":", "x", "/", "*">>}
ParamRequestPaths ==
  {<<"/", "a", "/", "b">>, <<"/", "b", "/", "a">>, <<"/", "a", "/", "b", "/", "i">>,
   <<"/", "a", "/", "b", "/">>, <<"/", "a", "b", "/", "p">>}

\* The route loop of handleRequest for one registered route: the params
\* object when pathname.match(route.pathPattern) is not null.
paramsOf(route, pathname) ==
  LET match == regexExec(pathToRegex(route), pathname)
  IN IF match.ok THEN bindParams(paramNames(route), match.groups) ELSE <<>>

\* handleRequest up to the onRequest hooks: the route loop fills params and
\* both views are created from the Bun request.
receive(searchParams, kind, route, pathname) ==
  /\ views.pc = "idle"
  /\ views' = [views EXCEPT !.pc = "onRequest", !.searchParams = searchParams,
                            !.handler = kind,
                            !.route = route, !.pathname = pathname,
                            !.matched = regexExec(pathToRegex(route), pathname).ok,
                            !.params = paramsOf(route, pathname),
                            !.req = createExpressRequest(searchParams),
                            !.fastifyReq = createFastifyRequest(searchParams)]
  /\ UNCHANGED <<registry, locals, history, calls, lastCall, plugins,
                 requestDecorators, inflight, cors>>

\* An onRequest or preHandler hook is called with the Fastify view and
\* assigns the properties `assigned` on it; the next phase follows.
runHooks(assigned) ==
  /\ views.pc \in {"onRequest", "preHandler"}
  /\ views' = [views EXCEPT
       !.pc = IF views.pc = "onRequest" THEN "preHandler" ELSE "handler",
       !.fastifyReq.props = @ \cup assigned]
  /\ UNCHANGED <<registry, locals, history, calls, lastCall, plugins,
                 requestDecorators, inflight, cors>>

\* A dispatcher that hands the hooks' view to a Fastify-style handler.
handlerRequest_hooksView(kind) ==
  IF kind = "express" THEN "req" ELSE "fastifyReq"

\* The object the route handler is called with: matchedRoute.handler(req,
\* res, next) passes the Express view; the wrapper made by
\* wrapFastifyHandler creates a Fastify view of its own from req.raw.
handlerRequest(kind) ==
  IF kind = "express" THEN "req" ELSE "wrapped"

\* The route handler is called and reads the properties of its request.
callRouteHandler ==
  /\ views.pc = "handler"
  /\ LET passed == handlerRequest(views.handler)
         object == CASE passed = "req" -> views.req
                     [] passed = "fastifyReq" -> views.fastifyReq
                     [] OTHER -> createFastifyRequest(views.searchParams)
     IN views' = [views EXCEPT !.pc = "done", !.passed = passed,
                               !.seen = object.props]
  /\ UNCHANGED <<registry, locals, history, calls, lastCall, plugins,
                 requestDecorators, inflight, cors>>

NextViews ==
  \/ \E searchParams \in SearchParams, kind \in HandlerKinds,
          route \in ParamPatterns, pathname \in ParamRequestPaths :
       receive(searchParams, kind, route, pathname)
  \/ \E assigned \in SUBSET HookProps : runHooks(assigned)
  \/ callRouteHandler

SpecViews == Init /\ [][NextViews]_vars

(* --------------------------------- CORS ---------------------------------- *)

\* The methods of the routes and of the requests, and the pathnames
\* requested: "/a" and "/api/a".
CorsRouteMethods == {"OPTIONS", "GET"}
CorsRequestMethods == {"OPTIONS", "GET"}
CorsRequestPaths == {PathA, <<"/", "a", "p", "i", "/", "a">>}
\* The hooks of the phases that follow the middleware chain.
LaterHookNames == {"preHandler", "onSend"}
\* The origin option of enableCors: the default "*", a function that allows
\* every origin, callback(null, true), and one that refuses every origin,
\* callback(null, false).
OriginFunctions == {"fnAllow", "fnDeny"}
OriginOptions == {"*"} \cup OriginFunctions
\* The Origin header of the request; "" is a request without one.
RequestOrigins == {"", "https://example.com"}

\* BunAdapter.enableCors: the options are resolved and one middleware is
\* added through use(fn), with no path.
enableCors(preflightContinue, origin) ==
  /\ request = NoRequest
  /\ cors = NoCors
  /\ Len(middlewares) < MaxMiddleware
  /\ middlewares' = Append(middlewares, RootPath)
  /\ cors' = [at |-> Len(middlewares) + 1, preflightContinue |-> preflightContinue,
              origin |-> origin, requestOrigin |-> ""]
  /\ UNCHANGED <<fastifyHooks, errorMiddlewares, routes, errorHandler, notFoundHandler,
                 globalPrefix, listening, locals, history, calls, lastCall, plugins,
                 requestDecorators, inflight, views>>

\* An origin function that is asked: the request's origin when it allows,
\* no origin when it refuses.
allowOrigin_asked(origin, requestOrigin) ==
  CASE origin = "fnAllow" -> IF requestOrigin = "" THEN "*" ELSE requestOrigin
    [] origin = "fnDeny" -> ""
    [] OTHER -> origin

\* The allowed origin the middleware of enableCors computes (lines 815-833)
\* from the origin option, a string or a function, and req.get("origin") ?? "":
\* a string is used as it is, a function is not called.
allowOrigin(origin, requestOrigin) ==
  IF origin \in OriginFunctions
  THEN IF requestOrigin = "" THEN "*" ELSE requestOrigin
  ELSE origin

\* The middleware of enableCors: the Access-Control-Allow-* headers are set
\* on the Express response.
corsHeaders(r) ==
  res_set(r, "access-control-allow-origin", allowOrigin(cors.origin, cors'.requestOrigin))

\* The middleware of enableCors on an OPTIONS request without
\* preflightContinue: res.status(optionsSuccessStatus).end().
corsPreflight(r) == res_end(res_status(corsHeaders(r), 204), Undefined)

\* The loop of executeMiddlewareChain from index `from` on, where the
\* middleware of enableCors does what its code does and every other
\* middleware calls next(): the callbacks called, the Express response they
\* leave and whether the chain completed the response.
RECURSIVE corsChain(_, _, _, _)
corsChain(method, pathname, from, r) ==
  LET i == firstMatching(middlewares, pathname, from)
  IN IF i > Len(middlewares)
     THEN [trace |-> <<>>, res |-> r, completed |-> FALSE]
     ELSE IF i # cors.at
     THEN LET rest == corsChain(method, pathname, i + 1, r)
          IN [rest EXCEPT !.trace = <<<<"middleware", i>>>> \o @]
     ELSE IF method = "OPTIONS" /\ ~cors.preflightContinue
     THEN [trace |-> <<<<"cors", i>>>>, res |-> corsPreflight(r), completed |-> TRUE]
     ELSE LET rest == corsChain(method, pathname, i + 1, corsHeaders(r))
          IN [rest EXCEPT !.trace = <<<<"cors", i>>>> \o @]

\* The hooks of one phase, each calling done().
hooksOf(name) == [i \in 1..fastifyHooks[name] |-> <<name, i>>]

\* handleRequest with hooks that call done(), middleware that call next()
\* and a handler that calls res.send: the middleware chain, then, unless the
\* chain completed the response, the preHandler hooks, the handler of the
\* matched route and the onSend hooks, or the not-found response.
handleCorsRequest(method, pathname, requestOrigin) ==
  /\ request = NoRequest
  /\ request' = [method |-> method, pathname |-> pathname]
  /\ cors' = [cors EXCEPT !.requestOrigin = requestOrigin]
  /\ LET route == findRoute(method, pathname, 1)
         chain == corsChain(method, pathname, 1, res)
         sent == res_send(chain.res, Str("handled"))
     IN /\ matchedRoute' = (route # 0)
        /\ IF chain.completed
           THEN /\ trace' = chain.trace
                /\ res' = res_afterBuild(chain.res)
                /\ response' = res_buildResponse(chain.res)
           ELSE IF route # 0
           THEN /\ trace' = chain.trace \o hooksOf("preHandler")
                             \o <<<<"handler", route>>>> \o hooksOf("onSend")
                /\ res' = res_afterBuild(sent)
                /\ response' = res_buildResponse(sent)
           ELSE /\ trace' = chain.trace \o hooksOf("preHandler") \o <<<<"notFound", 0>>>>
                /\ res' = chain.res
                /\ response' = NotFoundResponse
  /\ pc' = "done" /\ outcome' = "resolved"
  /\ UNCHANGED <<registry, idx, site, err, fastifyReply, payload, awaiting,
                 lastSignal, raised, handledBy, recoveryThrew, flow, calls, lastCall,
                 plugins, requestDecorators, inflight, views>>

NextCors ==
  \/ \E prefix \in Prefixes : setGlobalPrefix(prefix)
  \/ \E preflightContinue \in BOOLEAN, origin \in OriginOptions :
       enableCors(preflightContinue, origin)
  \/ \E path \in MiddlewarePaths : use(path)
  \/ \E name \in LaterHookNames : request = NoRequest /\ addHook(name)
  \/ \E method \in CorsRouteMethods : registerRoute(method, PathA)
  \/ \E method \in CorsRequestMethods, pathname \in CorsRequestPaths,
        requestOrigin \in RequestOrigins :
       handleCorsRequest(method, pathname, requestOrigin)

SpecCors == Init /\ [][NextCors]_vars

(* ------------------------------ properties ------------------------------ *)

\* the step in which handleRequest returns a Response
Returns == pc # "done" /\ pc' = "done" /\ outcome' = "resolved"

\* C1: once a builder is marked ended, no later write changes the response
\* returned to the client: a step that returns the Response built from a
\* builder that was ended before the step returns what the builder held then.
EndedBuilderKeepsResponse ==
  [][Returns =>
       /\ (res.ended /\ response' = res_buildResponse(res')
             => response' = res_buildResponse(res))
       /\ (fastifyReply.sent /\ response' = reply_buildResponse(fastifyReply')
             => response' = reply_buildResponse(fastifyReply))]_vars

\* status, headers and body held by a builder
Content(b) == <<b.statusCode, b.headers, b.body>>

\* C2: a terminal write that follows a terminal write on the same builder
\* leaves the builder's status, headers and body as they were.
LaterTerminalWriteIsNoOp ==
  [][(/\ calls' = calls + 1
      /\ lastCall.op \in TerminalOps
      /\ lastCall'.op \in TerminalOps
      /\ lastCall'.target = lastCall.target)
       => IF lastCall.target = "res"
          THEN Content(res') = Content(res)
          ELSE Content(fastifyReply') = Content(fastifyReply)]_vars

\* C3: handleRequest never rejects: when it is over its promise has resolved
\* with a Response.
HandleRequestResolves ==
  /\ outcome # "rejected"
  /\ pc = "done" => outcome = "resolved" /\ response # NoResponse

\* the events of one hook phase, in registration order
PhaseEvents(name) == [i \in 1..fastifyHooks[name] |-> <<name, i>>]

\* the events of the middleware whose scope matches the request, in
\* registration order
RECURSIVE MiddlewareEvents(_)
MiddlewareEvents(i) ==
  IF i > Len(middlewares) THEN <<>>
  ELSE (IF pathMatchesMiddleware(request.pathname, buildPath(middlewares[i], globalPrefix))
        THEN <<<<"middleware", i>>>> ELSE <<>>) \o MiddlewareEvents(i + 1)

\* the order the phases are required to run in
LifecycleEvents ==
  PhaseEvents("onRequest") \o MiddlewareEvents(1) \o PhaseEvents("preHandler")
  \o <<<<"handler", 1>>>> \o PhaseEvents("onSend") \o <<<<"buildResponse", 0>>>>
  \o PhaseEvents("onResponse")

IsPrefix(s, t) == Len(s) <= Len(t) /\ SubSeq(t, 1, Len(s)) = s

\* a request with a matching route in which nothing has raised an error and
\* no hook or middleware has ended a response
NothingErrsOrEnds ==
  /\ pc # "idle" /\ matchedRoute /\ raised = "none"
  /\ flow \cap {"ended", "threwFalsy"} = {}

Called == {trace[k] : k \in 1..Len(trace)}

\* the error middleware whose scope matches the request
MatchingErrorMiddleware ==
  {i \in 1..Len(errorMiddlewares) :
     pathMatchesMiddleware(request.pathname, buildPath(errorMiddlewares[i], globalPrefix))}

\* C5: an error raised in a phase is offered to the matching error middleware,
\* then to the onError hooks, then to the global error handler, then answered
\* with the default 500: a response made by a later stage means every earlier
\* stage was consulted (no recovery handler threw, recovery did not run in the
\* top-level catch).
RecoveryOrder ==
  (/\ pc = "done" /\ outcome = "resolved"
   /\ raised \in {"onRequest", "middleware", "preHandler", "handler", "onSend"}
   /\ recoveryThrew = "none"
   /\ handledBy \in {"onError", "errorHandler", "default500"})
  => /\ \A i \in MatchingErrorMiddleware : <<"errorMiddleware", i>> \in Called
     /\ handledBy \in {"errorHandler", "default500"}
          => \A i \in 1..fastifyHooks["onError"] : <<"onError", i>> \in Called
     /\ handledBy = "default500" => ~errorHandler

\* C6: a recovery handler that throws never makes handleRequest reject.
RecoveryThrowIsContained == recoveryThrew # "none" => outcome # "rejected"

\* C7: when handleRequest has returned a response every registered onResponse
\* hook has been run.
OnResponseAlwaysRuns ==
  pc = "done" /\ outcome = "resolved"
    => \A i \in 1..fastifyHooks["onResponse"] : <<"onResponse", i>> \in Called

\* what must not be called after a hook of the phase has signalled an error
\* or ended the reply
Skipped(phase) ==
  IF phase = "onRequest" THEN {"onRequest", "middleware", "preHandler", "handler"}
  ELSE {"preHandler", "handler"}

\* C8: after an onRequest or preHandler hook has signalled an error or ended
\* the reply, the next callback called is no remaining hook of the phase, no
\* middleware, no preHandler hook and not the route handler.
HookStopsPipeline ==
  [][(/\ lastSignal.cb \in {"onRequest", "preHandler"}
      /\ lastSignal.kind \in {"doneErr", "reject", "throw", "value", "ended"}
      /\ Len(trace') = Len(trace) + 1)
       => trace'[Len(trace')][1] \notin Skipped(lastSignal.cb)]_vars

\* C9: a hook that throws, a hook whose promise rejects and a hook that passes
\* the error to done leave the phase the same way (the error goes to the
\* onError hooks) and, when no onError hook is registered, yield the same
\* response (the reply's default 500).
HookFailuresAlike ==
  /\ (/\ lastSignal.cb \in {"onRequest", "preHandler"}
      /\ lastSignal.kind \in {"doneErr", "reject", "throw"})
       => \/ pc = "onError" /\ site = lastSignal.cb /\ err = ErrorOf("boom")
          \/ pc = "done" /\ handledBy \in {"onError", "default500"}
  /\ (/\ pc = "done" /\ raised \in {"onRequest", "preHandler"}
      /\ fastifyHooks["onError"] = 0)
       => /\ outcome = "resolved"
          /\ response = reply_buildResponse(fastifyReply)
          /\ response.status = 500

\* C10: while a callback has returned without signalling completion the
\* executor stays at that callback and handleRequest has not returned.
ExecutorWaits ==
  awaiting # None => pc = awaiting.cb /\ idx = awaiting.i /\ outcome = "pending"

\* The request is dispatched: the route loop and the middleware selection ran.
Dispatched == request # NoRequest /\ pc = "done" /\ listening = FALSE

\* The routes that match the request, by method and by pattern.
MatchingRoutes ==
  {i \in 1..Len(routes) :
     /\ routes[i].method \in {request.method, "ALL"}
     /\ regexMatches(pathToRegex(routes[i].path), request.pathname)}

HandlersCalled == {k \in 1..Len(trace) : trace[k][1] = "handler"}

\* C14: a request is dispatched to the first route, in registration order,
\* whose method is the request's or ALL and whose pattern matches the whole
\* pathname; no other route's handler is called for the request.
FirstMatchingRouteWins ==
  Dispatched =>
    /\ MatchingRoutes = {} => HandlersCalled = {}
    /\ MatchingRoutes # {} =>
         /\ Cardinality(HandlersCalled) = 1
         /\ \A k \in HandlersCalled :
              /\ trace[k][2] \in MatchingRoutes
              /\ \A j \in MatchingRoutes : trace[k][2] <= j

\* Two routes match the request and the first one was called.
FirstMatchingRouteWinsWitness ==
  /\ Dispatched
  /\ Cardinality(MatchingRoutes) = 2
  /\ routes[1].path # routes[2].path
  /\ <<"handler", 1>> \in Called

\* The middleware selected for pathname p, by index.
SelectedFor(p) == {chainOf(p, 1)[k][2] : k \in 1..Len(chainOf(p, 1))}

\* C13: for every request path and every global prefix, a middleware
\* registered at root scope ("/" or "") is selected, and a middleware
\* registered with scope P is selected exactly when P, under the global
\* prefix, is the request path or a leading run of its segments.
ScopeSelection ==
  \A i \in 1..Len(middlewares), p \in AllRequestPaths :
    IF middlewares[i] \in {RootPath, <<>>}
    THEN i \in SelectedFor(p)
    ELSE LET P == buildPath(middlewares[i], globalPrefix)
         IN i \in SelectedFor(p) <=> (p = P \/ startsWith(p, P \o <<"/">>))

\* C15: the global prefix is applied once, at registration: a call of
\* setGlobalPrefix changes neither the route nor the middleware that any
\* request selects among the entries already registered.
PrefixAppliedAtRegistration ==
  [][(middlewares' = middlewares /\ routes' = routes) =>
       \A m \in RequestMethods, p \in AllRequestPaths :
         /\ findRoute(m, p, 1)' = findRoute(m, p, 1)
         /\ SelectedFor(p)' = SelectedFor(p)]_vars

\* The middleware events of the trace, in order.
MiddlewareCalled == SelectSeq(trace, LAMBDA ev : ev[1] = "middleware")

\* The trace up to the call of the route handler.
BeforeHandler ==
  LET k == CHOOSE j \in 1..Len(trace) : trace[j] = <<"handler", 1>>
  IN SubSeq(trace, 1, k - 1)

\* C11: the middleware whose scope matches the request run one at a time in
\* registration order, and the route handler is called only after every one
\* of them has called next() with no error and without ending the response.
MiddlewareBeforeHandler ==
  request # NoRequest =>
    /\ IsPrefix(MiddlewareCalled, MiddlewareEvents(1))
    /\ <<"handler", 1>> \in Called =>
         /\ SelectSeq(BeforeHandler, LAMBDA ev : ev[1] = "middleware") = MiddlewareEvents(1)
         /\ MiddlewareCalled = MiddlewareEvents(1)
         /\ flow \cap {"ended", "halted", "nextLater", "threwFalsy"} = {}
         /\ raised # "middleware"

\* C12: a matching middleware that completes without calling next and
\* without ending the response halts the chain with no error: nothing is
\* called after it, and the response is finalized from the builder as it
\* stands, status 200 with an empty body when nothing was written.
HaltedChainFinalizes ==
  "halted" \in flow =>
    /\ pc = "done" /\ outcome = "resolved"
    /\ trace[Len(trace)][1] = "middleware"
    /\ Called \cap {<<"handler", 1>>, <<"preHandler", 1>>, <<"notFound", 0>>} = {}
    /\ raised = "none" /\ handledBy = "none"
    /\ response = res_buildResponse(res)
    /\ response.status = res.statusCode
    /\ (res.statusCode = 200 /\ res.body = createExpressResponse.body)
         => response.status = 200 /\ response.body = Null

\* A chain halted by its second middleware, with a status written but
\* nothing sent, while preHandler hooks and a route are registered.
HaltedChainFinalizesWitness ==
  /\ "halted" \in flow
  /\ trace[Len(trace)] = <<"middleware", 2>>
  /\ response.status = 201 /\ response.body = Null
  /\ fastifyHooks["preHandler"] > 0 /\ matchedRoute

\* The miss is acted on: the not-found branch of handleRequest is reached.
MissActedOn ==
  /\ request # NoRequest /\ ~matchedRoute
  /\ \/ pc = "notFound"
     \/ <<"notFound", 0>> \in Called
     \/ pc = "done" /\ response = NotFoundResponse

\* C16: when no route matches, the miss is acted on only after the onRequest
\* hooks, the middleware chain and the preHandler hooks have all run with no
\* error and without ending a response; the response is then what the
\* not-found handler wrote if one is set, and the default 404 otherwise.
NotFoundAfterPipeline ==
  MissActedOn =>
    /\ IsPrefix(PhaseEvents("onRequest") \o MiddlewareEvents(1) \o PhaseEvents("preHandler"),
                trace)
    /\ flow = {}
    /\ pc = "notFound" /\ lastSignal.cb \in {"onRequest", "preHandler"}
         => lastSignal.kind = "ok"
    /\ pc = "done" /\ raised = "none"
         => response = IF notFoundHandler THEN res_buildResponse(res) ELSE NotFoundResponse

\* C17: when the route handler returns a raw Response object, that object is
\* the response of the request, returned after the onResponse hooks have
\* run, whatever was written to either response builder.
RawResponseReturned ==
  /\ pc = "done" /\ lastSignal = Signal("handler", 1, "response")
       => outcome = "resolved" /\ response = RawResponse
  /\ pc = "done" /\ "raw" \in flow
       => /\ outcome = "resolved" /\ response = RawResponse
          /\ \A i \in 1..fastifyHooks["onResponse"] : <<"onResponse", i>> \in Called

\* C18: the onSend hooks run on every path that sends a response built by
\* the adapter, the early ends of hooks and middleware and the not-found
\* answer included.
OnSendOnEveryPath ==
  pc = "done" /\ outcome = "resolved" /\ raised = "none" /\ "raw" \notin flow
    => \A i \in 1..fastifyHooks["onSend"] : <<"onSend", i>> \in Called

\* The two bodies of the default answer to an onSend error: with the
\* message of the Error, and without one.
OnSendDefaultBodies ==
  {JSONstringify(Obj("statusCode:500,message:boom")), JSONstringify(Obj("statusCode:500"))}

\* C19: when an onSend hook signals an error after the route handler sent a
\* body, and no onError hook handles it, the client receives status 500 with
\* the default JSON error body, not the handler's response.
OnSendErrorGives500 ==
  /\ pc = "done" /\ raised = "onSend" /\ handledBy # "onError"
  /\ payload.kind \notin {"null", "undefined"}
  => /\ outcome = "resolved"
     /\ response.status = 500
     /\ response.body \in OnSendDefaultBodies

\* C20: an onResponse hook that signals an error, rejects or throws leaves
\* the response as it is and starts no error recovery.
OnResponseErrorIgnored ==
  [][pc = "onResponse" /\ trace' = Append(trace, <<"onResponse", idx>>)
       => response' = response /\ raised' = raised /\ pc' = "onResponse"]_vars

\* The payload after the first k events of the trace of executeOnSend, by
\* the rule of the claim: a replacement replaces, anything else keeps.
RECURSIVE PayloadAfter(_)
PayloadAfter(k) ==
  IF k = 1 THEN trace[1][3]
  ELSE LET prev == PayloadAfter(k - 1)
           ev == trace[k]
       IN CASE ev[1] = "doneAppend" -> Str(prev.v \o Suffix(ev[2]))
            [] ev[1] = "doneEmpty" -> Str("")
            [] OTHER -> prev

\* C21: executeOnSend returns the payload obtained by applying the onSend
\* hooks in registration order, each receiving the payload the previous one
\* left; a hook that supplies no replacement leaves the payload unchanged.
OnSendPayloadChain ==
  site = "executeOnSend" =>
    /\ \A k \in 2..Len(trace) :
         trace[k][2] = k - 1 /\ trace[k][3] = PayloadAfter(k - 1)
    /\ pc = "done" /\ outcome = "resolved" =>
         /\ payload = PayloadAfter(Len(trace))
         /\ err = NoError => Len(trace) = fastifyHooks["onSend"] + 1

\* Two hooks ran: the first appended, the second passed no replacement, and
\* the payload returned is the one the first left.
OnSendPayloadChainWitness ==
  /\ site = "executeOnSend" /\ pc = "done" /\ outcome = "resolved"
  /\ Len(trace) = 3
  /\ trace[2][1] = "doneAppend" /\ trace[3][1] \in {"done", "doneNull", "resolve"}
  /\ payload = Str("original first")

\* The events of the trace of executeOnError that handle the error.
Handling == {k \in 1..Len(trace) : trace[k][1] = "done" \/ trace[k][3]}

\* C22: executeOnError runs the error hooks in registration order and
\* reports handled exactly when some hook completes by calling done with no
\* error or with the reply ended; no hook runs after the first handling one,
\* and when no hook handles the error it reports unhandled.
OnErrorReports ==
  site = "executeOnError" =>
    /\ \A k \in 1..Len(trace) : trace[k][2] = k
    /\ \A k \in Handling : k = Len(trace)
    /\ pc = "done" =>
         /\ outcome = "resolved"
         /\ handledBy = "onError" <=> Handling # {}
         /\ Handling = {} => Len(trace) = fastifyHooks["onError"]

\* An error middleware has ended the response: the builder holds what it
\* sent.
EndedByErrorMiddleware == res.ended /\ res.statusCode = 500 /\ res.body = Str("errmw")

\* C23: error middleware run in registration order, next(err) passes the
\* error on to the next matching one, and the first one that ends the
\* response determines the status and body the client receives.
ErrorMiddlewareChain ==
  [][/\ (pc = "errorMiddleware" /\ pc' = "errorMiddleware" /\ idx' # idx)
        => /\ trace' = Append(trace, <<"errorMiddleware", idx>>)
           /\ idx' = firstMatching(errorMiddlewares, request.pathname, idx + 1)
     /\ EndedByErrorMiddleware
        => /\ EndedByErrorMiddleware'
           /\ pc' = "done" => /\ outcome' = "resolved"
                               /\ response'.status = 500
                               /\ response'.body = Str("errmw")]_vars

\* The start and finish events of plugins 1..n run one after the other.
RECURSIVE PluginEvents(_)
PluginEvents(n) ==
  IF n = 0 THEN <<>> ELSE PluginEvents(n - 1) \o <<<<"start", n>>, <<"finish", n>>>>

\* The plugins that error: done(err), a rejected promise, a throw.
Erroring == {i \in 1..Len(plugins) : plugins[i] \in {"doneErr", "reject", "throw"}}

\* The plugins that were started and error.
FailedPlugins ==
  {trace[k][2] : k \in {j \in 1..Len(trace) : trace[j][1] = "start"
                                               /\ trace[j][2] \in Erroring}}

\* C24: listen runs the registered plugins one at a time in registration
\* order, each finishing before the next starts, and opens the listener
\* only after all have succeeded; when a plugin errors, listen rejects with
\* that error, no later plugin runs and the listener is not opened.
ListenRunsPlugins ==
  site = "listen" =>
    /\ IsPrefix(trace, PluginEvents(Len(plugins)))
    /\ listening => /\ trace = PluginEvents(Len(plugins))
                    /\ outcome = "resolved"
                    /\ Erroring = {}
    /\ \A i \in FailedPlugins :
         /\ ~listening
         /\ pc = "done" /\ outcome = "rejected" /\ err = ErrorOf("plugin")
         /\ trace[Len(trace)] = <<"start", i>>
    /\ pc = "done" /\ FailedPlugins = {} => listening

\* The second of three plugins failed after the first had called done late:
\* listen rejected, the third plugin never started.
ListenRunsPluginsWitness ==
  /\ site = "listen" /\ pc = "done" /\ outcome = "rejected" /\ ~listening
  /\ Len(plugins) = 3 /\ plugins[1] = "doneLater"
  /\ trace = <<<<"start", 1>>, <<"finish", 1>>, <<"start", 2>>>>

\* C25: requests in flight together, interleaved at any await, each receive
\* the response they would receive alone: here, the user their own hook
\* stored in their request view.
RequestsAreIsolated ==
  \A r \in Requests : inflight[r].pc = "done" => inflight[r].response = r

\* The calls that set the status or set or remove a header.
HeaderOrStatusOps == {"status", "set", "removeHeader", "code", "header"}

\* C26: once a builder is ended, a call that sets the status or sets or
\* removes a header leaves the status and the headers of the response that
\* finalization produces as they were before the call.
SettersAfterEndKeepResponse ==
  [][(calls' = calls + 1 /\ lastCall'.op \in HeaderOrStatusOps)
       => IF lastCall'.target = "res"
          THEN res.ended =>
                 /\ res_buildResponse(res').status = res_buildResponse(res).status
                 /\ res_buildResponse(res').headers = res_buildResponse(res).headers
          ELSE fastifyReply.sent =>
                 /\ reply_buildResponse(fastifyReply').status
                      = reply_buildResponse(fastifyReply).status
                 /\ reply_buildResponse(fastifyReply').headers
                      = reply_buildResponse(fastifyReply).headers]_vars

\* What reading the body of a Response gives. A ReadableStream is handed to
\* new Response as it is and can be read once: a Response built on a stream
\* that was already read gives a TypeError in place of the bytes.
TypeErrorBody == [kind |-> "TypeError", v |-> "Body already used"]
ReadBody(resp, disturbed) ==
  IF resp.body.kind = "stream"
  THEN IF disturbed THEN TypeErrorBody ELSE Str(resp.body.v)
  ELSE resp.body

\* C27: two calls of _buildResponse on the same builder, with no call in
\* between, give two responses with the same status, the same headers and
\* the same body, whatever the kind of the body: reading the first response
\* and then the second gives the same bytes.
FinalizeTwiceSameResponse ==
  [][(/\ calls' = calls + 1
      /\ lastCall.op = "_buildResponse"
      /\ lastCall'.op = "_buildResponse"
      /\ lastCall'.target = lastCall.target)
       => /\ response'.status = response.status
          /\ response'.headers = response.headers
          /\ ReadBody(response', response.body.kind = "stream"
                                   /\ response'.body = response.body)
               = ReadBody(response, FALSE)]_vars

\* A builder that holds a Location header and a status in [300,400).
IsRedirect(b) ==
  HeadersHas(b.headers, "location") /\ b.statusCode >= 300 /\ b.statusCode < 400

\* A response that redirects to url with status code: the Location header is
\* url and there is no body.
RedirectsTo(resp, url, code) ==
  resp.status = code /\ resp.headers["location"] = url /\ resp.body = Null

\* C28: when _buildResponse runs on a builder that holds a Location header
\* and a status in [300,400), the response it returns is a redirect to that
\* location with no body, whatever body the builder holds.
RedirectHasNoBody ==
  [][(calls' = calls + 1 /\ lastCall'.op = "_buildResponse")
       => IF lastCall'.target = "res"
          THEN IsRedirect(res)
                 => RedirectsTo(response', res.headers["location"], res.statusCode)
          ELSE IsRedirect(fastifyReply)
                 => RedirectsTo(response', fastifyReply.headers["location"],
                                fastifyReply.statusCode)]_vars

\* _buildResponse has returned a redirect from an Express builder that holds
\* a body written by a call other than redirect.
RedirectHasNoBodyWitness ==
  /\ lastCall = [target |-> "res", op |-> "_buildResponse"]
  /\ IsRedirect(res)
  /\ res.body.kind \in {"string", "buffer", "stream", "blob"}
  /\ RedirectsTo(response, "/to", res.statusCode)

\* C29: the same value given to send on an Express response and on a Fastify
\* reply that has not been sent finalizes to the same body in both models,
\* for every kind of value (string, Buffer, stream, Blob, object, null,
\* undefined); redirects, whose response has no body, are left aside.
SendSameBodyInBothModels ==
  \A d \in Payloads :
    LET r == res_send(res, d)
        p == reply_send(fastifyReply, d)
    IN  (~fastifyReply.sent /\ ~IsRedirect(r) /\ ~IsRedirect(p))
          => res_buildResponse(r).body = reply_buildResponse(p).body

\* The positions of the trace at which callback cb was called.
CalledAt(cb) == {k \in 1..Len(trace) : trace[k] = cb}

\* C30: with CORS enabled, an OPTIONS request is answered by the CORS
\* middleware. With the default options the response has status 204 and
\* the CORS middleware is the last callback called; with preflightContinue
\* the CORS middleware is called and the handler of the matched OPTIONS
\* route is called after it.
CorsAnswersPreflight ==
  (pc = "done" /\ cors # NoCors /\ request.method = "OPTIONS")
    => /\ CalledAt(<<"cors", cors.at>>) # {}
       /\ IF cors.preflightContinue
          THEN matchedRoute =>
                 \E k \in CalledAt(<<"cors", cors.at>>), h \in 1..Len(trace) :
                   k < h /\ trace[h][1] = "handler"
          ELSE /\ response.status = 204
               /\ trace[Len(trace)] = <<"cors", cors.at>>

\* The index of the first pair of the query string whose key is k, or 0.
FirstOccurrence(k) ==
  LET occ == {i \in 1..Len(views.searchParams) : views.searchParams[i][1] = k}
  IN IF occ = {} THEN 0 ELSE CHOOSE i \in occ : \A j \in occ : i <= j

\* C31: in both request views the query object holds, for every key of the
\* query string, the value of the first occurrence of the key.
FirstOccurrenceWins ==
  views.pc # "idle" =>
    \A k \in QueryKeys :
      FirstOccurrence(k) # 0 =>
        /\ views.req.query[k] = views.searchParams[FirstOccurrence(k)][2]
        /\ views.fastifyReq.query[k] = views.searchParams[FirstOccurrence(k)][2]

\* C35: the route handler is called with an object other than the one the
\* onRequest and preHandler hooks were called with, for an Express-style
\* handler and for a Fastify-style handler alike, and no property a hook
\* assigned on its request object is seen on the handler's request object.
HandlerHasItsOwnRequest ==
  views.pc = "done" =>
    /\ views.passed # "fastifyReq"
    /\ views.seen \cap views.fastifyReq.props = {}

\* A Fastify-style handler has been called after a hook assigned a property
\* on its request object.
HandlerHasItsOwnRequestWitness ==
  /\ views.pc = "done"
  /\ views.handler = "fastify"
  /\ views.fastifyReq.props = HookProps
  /\ views.seen = {}

\* The segments of a path: the texts between its "/" characters, the one
\* before the first "/" included.
RECURSIVE Segments(_)
Segments(s) ==
  LET cut == {k \in 1..Len(s) : s[k] = "/"}
      first == CHOOSE k \in cut : \A j \in cut : k <= j
  IN IF cut = {} THEN <<s>>
     ELSE <<SubSeq(s, 1, first - 1)>> \o Segments(SubSeq(s, first + 1, Len(s)))

\* The positions, in order, of the segments of a pattern that are a :name.
NamePositions(route) ==
  {j \in 1..Len(Segments(route)) :
     Segments(route)[j] # <<>> /\ Segments(route)[j][1] = ":"}

\* C32: when a request matches a route whose pattern has several :name
\* tokens, the i-th name of the pattern is bound to the segment of the
\* pathname at the place of the i-th token, a segment that is not empty and
\* holds no "/".
ParamsInDeclarationOrder ==
  (views.pc # "idle" /\ views.matched) =>
    \A j \in NamePositions(views.route) :
      LET name == Tail(Segments(views.route)[j])
          segment == Segments(views.pathname)[j]
      IN /\ name \in DOMAIN views.params
         /\ views.params[name] = segment
         /\ segment # <<>>
         /\ \A k \in 1..Len(segment) : segment[k] # "/"

\* The request /a/b/i has matched the route /:p/b/:x, whose names are not
\* in alphabetical order.
ParamsInDeclarationOrderWitness ==
  /\ views.pc # "idle" /\ views.matched
  /\ views.route = <<"/", ":", "p", "/", "b", "/", ":", "x">>
  /\ views.params[<<"p">>] = <<"a">>
  /\ views.params[<<"x">>] = <<"i">>

\* The bodies the Express response can hold when the onSend hooks start:
\* nothing, what the handler sent, or the value the handler returned.
BodiesAtOnSend == {Null, Str("ok"), JSONstringify(Obj("result"))}

\* C33: when no onSend hook errors, the body of the response handleRequest
\* returns is the body the Express response held when the onSend hooks
\* started, whatever payload the hooks passed on: no onSend hook changes the
\* Express response, the response built after the hooks has its body, and
\* that response is the one returned.
OnSendPayloadDropped ==
  [][/\ pc = "onSend" /\ pc' \in {"onSend", "build"}
        => res' = res /\ res.body \in BodiesAtOnSend
     /\ pc = "build" => response'.body = res.body
     /\ (Returns /\ <<"buildResponse", 0>> \in Called /\ raised' # "onSend")
          => response' = response]_vars

\* The step finalizes the Express response: res._buildResponse() is called
\* at line 521, or by a return statement of handleRequest.
FinalizesRes ==
  \/ pc = "build" /\ pc' = "onResponse"
  \/ /\ Returns
     /\ pc \in {"middleware", "errorMiddleware", "errorHandler", "notFound", "outerCatch"}
     /\ res'.headersSent
     /\ response' = res_buildResponse(res')

\* The step finalizes the Fastify reply by a return statement of
\* handleRequest.
FinalizesReply ==
  /\ Returns
  /\ pc \in {"onRequest", "preHandler", "onError"}
  /\ response' = reply_buildResponse(fastifyReply')

\* C34: the response handleRequest returns is built from one builder at
\* most, the Express response or the Fastify reply, that was not finalized
\* before, and holds nothing of what was written to the other builder: it
\* is the finalization of the one builder, a Response handleRequest
\* constructs itself, or the Response object the handler returned.
OneBuilderPerResponse ==
  [][/\ Returns =>
          \/ FinalizesRes /\ ~FinalizesReply
          \/ FinalizesReply /\ ~FinalizesRes
          \/ response' \in {NotFoundResponse, CaughtResponse(err)}
          \/ pc = "onResponse" /\ response' = response
     /\ FinalizesRes => ~res.headersSent]_vars

\* C36: an onRequest or preHandler hook that signals failure with a value
\* that is no Error instance, passed to done or as a promise rejection, is
\* treated as a hook that succeeded: no recovery starts and the loop goes on
\* with the next hook of the phase, or leaves the phase when the hook sent
\* the reply, as after done().
NonErrorFailureIsSuccess ==
  [][(/\ pc \in {"onRequest", "preHandler"}
      /\ trace' = Append(trace, <<pc, idx>>)
      /\ lastSignal'.kind = "value")
       => /\ pc' = pc
          /\ idx' = IF fastifyReply'.sent THEN fastifyHooks[pc] + 1 ELSE idx + 1
          /\ raised' = raised
          /\ err' = err
          /\ outcome' = "pending"]_vars

\* The route handler is being called right after the last preHandler hook
\* signalled a value that is no Error, and nothing has erred.
NonErrorFailureIsSuccessWitness ==
  /\ pc = "handler"
  /\ lastSignal.cb = "preHandler"
  /\ lastSignal.kind = "value"
  /\ raised = "none"


\* C37: an error middleware that returns without calling next and without
\* ending the response has handled the error: the step that runs it returns
\* the Response built from the Express response as it stands (status 200 and
\* an empty body when nothing was written on it), and once the request is
\* answered no further callback runs.
ErrorMiddlewareReturned ==
  /\ pc = "errorMiddleware"
  /\ trace' = Append(trace, <<"errorMiddleware", idx>>)
  /\ lastSignal'.kind = "return"
  /\ ~res'.ended
SilentErrorMiddlewareHandles ==
  [][/\ ErrorMiddlewareReturned
        => /\ Returns
           /\ handledBy' = "errorMiddleware"
           /\ response' = res_buildResponse(res)
           /\ (res.statusCode = 200 /\ res.body = Null)
                => response'.status = 200 /\ response'.body = Null
     /\ pc = "done" => trace' = trace /\ pc' = "done"]_vars
SilentErrorMiddlewareHandlesWitness ==
  /\ pc = "done"
  /\ lastSignal = Signal("errorMiddleware", 1, "return")
  /\ Len(errorMiddlewares) > 1
  /\ ~res.ended
  /\ handledBy = "errorMiddleware"
  /\ response.status = 200 /\ response.body = Null


\* C38: when the matched route handler calls next() with no error and has
\* written nothing, the request goes on to the onSend hooks with the Express
\* response untouched: the handler of no later route and no not-found handler
\* is called, and when no hook fails afterwards the client receives the
\* Response built from the untouched Express response (status 200, no body).
HandlerCalledNext ==
  /\ lastSignal = Signal("handler", 1, "next")
  /\ res = createExpressResponse
NotPassedOn ==
  /\ <<"notFound", 0>> \notin Called
  /\ Cardinality({i \in 1..Len(trace) : trace[i][1] = "handler"}) = 1
OriginFunctionNeverAsked ==
  (pc = "done" /\ cors.at # 0 /\ cors.origin \in OriginFunctions)
    => res.headers["access-control-allow-origin"]
         = (IF cors.requestOrigin = "" THEN "*" ELSE cors.requestOrigin)


\* The headers of a builder, other than Location, that hold a value.
OtherHeaders(b) == {h \in HeaderNames \ {"location"} : HeadersHas(b.headers, h)}

\* C40: the response _buildResponse returns for a builder that holds a
\* Location header and a status in [300,400) carries that status and the
\* Location header and no other header, whatever other headers the builder
\* holds, on an Express response and on a Fastify reply.
RedirectDropsOtherHeaders ==
  [][(calls' = calls + 1 /\ lastCall'.op = "_buildResponse")
       => LET b == IF lastCall'.target = "res" THEN res ELSE fastifyReply
          IN IsRedirect(b)
               => /\ response'.status = b.statusCode
                  /\ response'.headers["location"] = b.headers["location"]
                  /\ \A h \in HeaderNames \ {"location"} :
                       ~HeadersHas(response'.headers, h)]_vars

\* _buildResponse has returned a redirect from a Fastify reply that holds a
\* header besides Location.
RedirectDropsOtherHeadersWitness ==
  /\ lastCall = [target |-> "reply", op |-> "_buildResponse"]
  /\ IsRedirect(fastifyReply)
  /\ OtherHeaders(fastifyReply) # {}
  /\ response.status = fastifyReply.statusCode
  /\ \A h \in HeaderNames \ {"location"} : ~HeadersHas(response.headers, h)

====
